---- MODULE Spec2Model ----
(***************************************************************************)
(* pokeapi-to-csv, cached pipeline (src/index.ts lines 599-1063):          *)
(* DiskMemoryCache, withCache, batch, batchMap and main.                   *)
(*                                                                         *)
(* JavaScript runs one continuation at a time.  Every action below is one  *)
(* run-to-completion block: it starts at the completion of an I/O request  *)
(* (file read, remote call, mkdir, open, write, timer) or at a promise     *)
(* continuation and ends where the code next waits.  Promise continuations *)
(* (the joins of Promise.all) run before the next I/O completion is        *)
(* dispatched, so I/O completions are enabled only when no continuation is *)
(* runnable.                                                               *)
(***************************************************************************)
EXTENDS Integers, Sequences, FiniteSets, TLC

VARIABLES
  mem,          \* DiskMemoryCache.mem of each cache: key -> value
  stats,        \* DiskMemoryCache.lastBatchStats of each cache
  disk,         \* the file system: directory -> (file name -> text)
  dirs,         \* the directories that exist
  calls,        \* the running batch()/batchMap() calls: call id -> frame
  tasks,        \* the fn(item) promises of the calls: <<call id, idx>> -> task
  remoteCalls,  \* number of requests issued to the upstream in this process
  pc,           \* position of main()
  locals,       \* the local variables of main()
  run,          \* number of the process execution
  lastRun,      \* how the previous process execution ended, the output
                \* file it left and the set() calls resolved before it ended
  committed     \* the set(k, v) calls that have resolved: cache -> (k -> v)

vars == <<mem, stats, disk, dirs, calls, tasks, remoteCalls, pc, locals, run,
          lastRun, committed>>

(***************************************************************************)
(* Bounds of the model                                                     *)
(***************************************************************************)
MaxVarieties == 1     \* varieties of the first species (the others have 1)
NumAbilities == 2     \* distinct abilities in the upstream catalogue
MaxRuns == 2          \* process executions over the same cache directory
MaxItems == 3         \* longest item list handed to a stand-alone batch()
MaxBatchSize == 2     \* largest window of a stand-alone batch()
MaxAbilityRefs == 3   \* longest ability list of a variant handed to the rows

(***************************************************************************)
(* JavaScript objects are sequences of <<field, value>> pairs in insertion *)
(* order; JSON text is a sequence of tokens.                               *)
(***************************************************************************)
None == <<>>

Has(o, f) == \E n \in DOMAIN o : o[n][1] = f

Get(o, f) == o[CHOOSE n \in DOMAIN o : o[n][1] = f][2]

LBrace == <<"{">>
RBrace == <<"}">>

\* JSON.stringify of an object all of whose fields are JSON values
JSONstringify(o) == <<LBrace>> \o o \o <<RBrace>>

\* mutant: a text cut short is parsed as far as it goes
ParsesLoosely(text) == Len(text) >= 1 /\ text[1] = LBrace

\* JSON.parse succeeds on a complete text only; the empty file and a
\* truncated text make it throw
Parses(text) ==
  /\ Len(text) >= 2
  /\ text[1] = LBrace
  /\ text[Len(text)] = RBrace
  /\ \A n \in 2..(Len(text) - 1) : Len(text[n]) = 2

JSONparse(text) == SubSeq(text, 2, Len(text) - 1)

\* a text cut short, as left by an interrupted write
Truncated(text) == SubSeq(text, 1, Len(text) - 1)

(***************************************************************************)
(* The upstream catalogue (unchanged during a behaviour)                   *)
(***************************************************************************)
SpeciesNames == <<"bulbasaur", "pichu">>
NumSpecies == Len(SpeciesNames)
VariantNames ==
  << <<"bulbasaur", "bulbasaur-mega", "bulbasaur-gmax">>,
     <<"pichu", "pichu-spiky-eared", "pichu-gmax">> >>
AbilityNames == <<"overgrow", "static", "synchronize">>
AbilityDisplay == <<"Overgrow", "Static", "Synchronize">>
AbilityEffect == <<"Strengthens grass moves.", "May paralyze.", "Copies status.">>
GrowthRateNames == <<"medium-slow">>

NamedResource(kind, name) == << <<"name", name>>, <<"url", <<kind, name>> >> >>

VarietyCount(s) == IF s = 1 THEN MaxVarieties ELSE 1

VariantName(s, v) == VariantNames[s][v]

\* the ability references of variety v of species s: one or two entries,
\* the last one flagged hidden; abilities are shared between variants
AbilityOf(s, v) == AbilityNames[((s + v) % NumAbilities) + 1]

AbilityRef(name, hidden) ==
  << <<"ability", NamedResource("ability", name)>>, <<"is_hidden", hidden>> >>

AbilityRefs(s, v) ==
  IF v = 1
    THEN <<AbilityRef(AbilityOf(s, v), FALSE),
           AbilityRef(AbilityNames[NumAbilities], TRUE)>>
    ELSE <<AbilityRef(AbilityOf(s, v), FALSE)>>

\* a localized list with one English entry
English(prop, text) == << << <<"language", "en">>, <<prop, text>> >> >>

SpeciesIds == <<1, 172>>
SpeciesDisplay == <<"Bulbasaur", "Pichu">>
SpeciesGenus == <<"Seed Pokemon", "Tiny Mouse Pokemon">>
SpeciesGeneration == <<"generation-i", "generation-ii">>
SpeciesGenderRate == <<1, 4>>
SpeciesEggGroups == << <<"monster", "plant">>, <<"no-eggs">> >>
SpeciesColor == <<"green", "yellow">>
VariantTypes == << <<"grass", "poison">>, <<"electric">> >>

SpeciesRecord(s) ==
  << <<"id", SpeciesIds[s]>>,
     <<"name", SpeciesNames[s]>>,
     <<"names", English("name", SpeciesDisplay[s])>>,
     <<"genera", English("genus", SpeciesGenus[s])>>,
     <<"generation", NamedResource("generation", SpeciesGeneration[s])>>,
     <<"is_baby", s = 2>>,
     <<"is_legendary", FALSE>>,
     <<"is_mythical", FALSE>>,
     <<"capture_rate", 45 * s>>,
     <<"base_happiness", 50>>,
     <<"gender_rate", SpeciesGenderRate[s]>>,
     <<"hatch_counter", 20 \div s>>,
     <<"egg_groups",
       [g \in DOMAIN SpeciesEggGroups[s] |->
          NamedResource("egg-group", SpeciesEggGroups[s][g])]>>,
     <<"color", NamedResource("pokemon-color", SpeciesColor[s])>>,
     <<"shape", NamedResource("pokemon-shape", "quadruped")>>,
     <<"growth_rate", NamedResource("growth-rate", GrowthRateNames[1])>>,
     <<"varieties",
       [v \in 1..VarietyCount(s) |->
          << <<"is_default", v = 1>>,
             <<"pokemon", NamedResource("pokemon", VariantName(s, v))>> >>]>> >>

\* the six stat kinds as the upstream names them, in the upstream's order
StatNames ==
  <<"hp", "attack", "defense", "special-attack", "special-defense", "speed">>

StatEntry(kind, base, effort) ==
  << <<"stat", NamedResource("stat", kind)>>,
     <<"base_stat", base>>,
     <<"effort", effort>> >>

\* base value 10k + s + v and effort k % 3 for the k-th kind
StatsOf(s, v) ==
  [k \in DOMAIN StatNames |-> StatEntry(StatNames[k], 10 * k + s + v, k % 3)]

PokemonRecord(s, v) ==
  << <<"name", VariantName(s, v)>>,
     <<"is_default", v = 1>>,
     <<"types",
       [n \in DOMAIN VariantTypes[s] |->
          << <<"slot", n>>,
             <<"type", NamedResource("type", VariantTypes[s][n])>> >>]>>,
     <<"height", 7 \div s>>,
     <<"weight", 69 \div s>>,
     <<"base_experience", 64 \div s>>,
     <<"stats", StatsOf(s, v)>>,
     <<"abilities", AbilityRefs(s, v)>>,
     <<"forms", <<NamedResource("pokemon-form", VariantName(s, v))>> >> >>

FormRecord(s, v) ==
  << <<"name", VariantName(s, v)>>,
     <<"is_default", TRUE>>,
     <<"names", English("name", VariantName(s, v))>> >>

AbilityRecord(name) ==
  LET a == CHOOSE n \in DOMAIN AbilityNames : AbilityNames[n] = name
  IN  << <<"name", name>>,
         <<"names",
           << << <<"language", "en">>, <<"name", AbilityDisplay[a]>> >> >> >>,
         <<"effect_entries",
           << << <<"language", "en">>,
                 <<"short_effect", AbilityEffect[a]>> >> >> >> >>

GrowthRateRecord(name) ==
  << <<"name", name>>,
     <<"levels",
       [l \in 1..100 |-> << <<"level", l>>, <<"experience", l * 10>> >>]>> >>

SpeciesList == [s \in 1..NumSpecies |-> NamedResource("pokemon-species", SpeciesNames[s])]

GrowthRatesList ==
  [g \in 1..Len(GrowthRateNames) |-> NamedResource("growth-rate", GrowthRateNames[g])]

\* the result of a stand-alone fetch function
RawResult(k) == << <<"result", k>> >>

\* what the upstream answers to get<op>ByName(name)
Upstream(op, name) ==
  CASE op = "species" ->
         SpeciesRecord(CHOOSE s \in 1..NumSpecies : SpeciesNames[s] = name)
    [] op = "pokemon" ->
         LET sv == CHOOSE p \in (1..NumSpecies) \X (1..MaxVarieties) :
                     VariantName(p[1], p[2]) = name
         IN  PokemonRecord(sv[1], sv[2])
    [] op = "form" ->
         LET sv == CHOOSE p \in (1..NumSpecies) \X (1..MaxVarieties) :
                     VariantName(p[1], p[2]) = name
         IN  FormRecord(sv[1], sv[2])
    [] op = "ability" -> AbilityRecord(name)
    [] op = "growth-rate" -> GrowthRateRecord(name)
    [] OTHER -> RawResult(name)

(***************************************************************************)
(* DiskMemoryCache and withCache                                           *)
(***************************************************************************)
Caches == {"species", "pokemon", "form", "ability", "growth-rate"}

OutDir == "out"
OutFile == "pokemon-cms.csv"

Dirs == Caches \cup {OutDir}

\* mutant: every cache keeps its files in the same directory
cacheDirShared(c) == "species"

\* cacheDir of a cache: path.join(cacheRoot, <name>)
cacheDir(c) == c

\* mutant: every key of a cache is stored in the same file
getPathShared(key) == <<"", ".json">>

\* the file of a key inside its cache directory:
\* encodeURIComponent(key) + '.json'
getPath(key) == <<key, ".json">>

ZeroStats == [fromMemory |-> 0, fromDisk |-> 0, fromApi |-> 0]

\* the wrapped functions whose argument is a string (the others get the
\* list entry, an object)
StringKeyed(op) == op \in {"ability", "growth-rate", "raw"}

\* const k = typeof key === 'string' ? key : JSON.stringify(key)
CacheKey(op, arg) == IF StringKeyed(op) THEN arg ELSE JSONstringify(arg)

\* the name the wrapped function hands to the upstream client
RemoteName(op, arg) ==
  CASE op = "pokemon" -> Get(Get(arg, "pokemon"), "name")
    [] op \in {"species", "form"} -> Get(arg, "name")
    [] OTHER -> arg

FileExists(d, file) == d \in dirs /\ file \in DOMAIN disk[d]

Bump(rc, req, n) ==
  IF n = 0 THEN rc
  ELSE IF req \in DOMAIN rc THEN [rc EXCEPT ![req] = @ + n]
  ELSE (req :> n) @@ rc

Put(f, k, v) == IF k \in DOMAIN f THEN [f EXCEPT ![k] = v] ELSE (k :> v) @@ f

(***************************************************************************)
(* batch and batchMap: one frame per call, one task per fn(item) promise   *)
(***************************************************************************)
Min(a, b) == IF a < b THEN a ELSE b

\* mutant: no window reaches the last item of the list
WindowDropsLast(f) == f.i .. (Min(f.i + f.batchSize, Len(f.items) - 1) - 1)

\* the 0-based indexes of items.slice(i, i + batchSize)
Window(f) == f.i .. (Min(f.i + f.batchSize, Len(f.items)) - 1)

Item(f, j) == f.items[j + 1]

\* delays is the number of timers the call has waited for or is waiting for,
\* counted up to the number of items (a loop that advances waits less often);
\* order is the order in which the promises of the current window were
\* fulfilled, reordered whether some promise of the call was fulfilled before
\* one of an earlier item, error the index of the first rejected promise
Frame(kind, op, cache, statsCache, items, batchSize, delayMs) ==
  [kind |-> kind, op |-> op, cache |-> cache, statsCache |-> statsCache,
   items |-> items, batchSize |-> batchSize, delayMs |-> delayMs,
   i |-> 0, results |-> <<>>, order |-> <<>>, reordered |-> FALSE,
   error |-> -1, mapper |-> <<>>, delays |-> 0,
   status |-> IF Len(items) = 0 THEN "done" ELSE "window"]

\* mutant: the mapper gets the index of the item inside its window
MapIndexInWindow(i, idx) == idx

\* fn(item, i + idx): the index batchMap hands to its mapper
MapIndex(i, idx) == i + idx

\* mutant: get() does not look the key up in memory
NewTaskSkipsMemory(f, j) ==
  IF f.cache = "none"
    THEN [pc |-> "fetching", val |-> None, source |-> "none",
          file |-> "unread", arg |-> MapIndex(f.i, j - f.i)]
    ELSE [pc |-> "reading", val |-> None, source |-> "none",
          file |-> "unread", arg |-> MapIndex(f.i, j - f.i)]

\* the promise of fn(item) at the point where fn first waits: a wrapped
\* function has looked the key up in memory, a bare one has issued its
\* request; arg is the index the mapper of batchMap was called with
NewTask(f, j) ==
  LET arg == MapIndex(f.i, j - f.i)
  IN  IF f.cache = "none"
        THEN [pc |-> "fetching", val |-> None, source |-> "none",
              file |-> "unread", arg |-> arg]
      ELSE IF CacheKey(f.op, Item(f, j)) \in DOMAIN mem[f.cache]
        THEN [pc |-> "resolved",
              val |-> mem[f.cache][CacheKey(f.op, Item(f, j))],
              source |-> "memory", file |-> "unread", arg |-> arg]
      ELSE [pc |-> "reading", val |-> None, source |-> "none",
            file |-> "unread", arg |-> arg]

\* S is the part of the state that issuing fetches changes
\* batchItems.map(fn) for the window at f.i of call c, after resetBatchStats
IssueWindow(S, c) ==
  LET f == S.calls[c]
      W == Window(f)
      hits == {j \in W : NewTask(f, j).pc = "resolved"}
      reset == IF f.statsCache = "none" THEN S.stats
               ELSE [S.stats EXCEPT ![f.statsCache] = ZeroStats]
      counted == IF f.cache = "none" THEN reset
                 ELSE [reset EXCEPT ![f.cache].fromMemory = @ + Cardinality(hits)]
      new == [t \in {<<c, j>> : j \in W} |-> NewTask(f, t[2])]
      \* a bare fn issues one request per item of the window
      req(j) == <<f.op, RemoteName(f.op, Item(f, j))>>
      reqs == IF f.cache = "none" THEN {req(j) : j \in W} ELSE {}
      RECURSIVE BumpAll(_, _)
      BumpAll(rc, rs) ==
        IF rs = {} THEN rc
        ELSE LET r == CHOOSE x \in rs : TRUE
             IN  BumpAll(Bump(rc, r, Cardinality({j \in W : req(j) = r})),
                         rs \ {r})
  IN  [S EXCEPT !.tasks = new @@ S.tasks,
                !.stats = counted,
                !.remoteCalls = BumpAll(S.remoteCalls, reqs)]

\* the call of batch()/batchMap() up to its first wait
StartCall(S, c, f) ==
  LET S1 == [S EXCEPT !.calls = (c :> f) @@ S.calls]
  IN  IF Len(f.items) = 0 THEN S1 ELSE IssueWindow(S1, c)

Sync == [calls |-> calls, tasks |-> tasks, stats |-> stats,
         remoteCalls |-> remoteCalls]

Commit(S) ==
  /\ calls' = S.calls
  /\ tasks' = S.tasks
  /\ stats' = S.stats
  /\ remoteCalls' = S.remoteCalls

(***************************************************************************)
(* The steps of a wrapped fetch: withCache, DiskMemoryCache.get and .set   *)
(***************************************************************************)
EmptyLocals ==
  [speciesList |-> <<>>, species |-> <<>>, speciesToVariantsMap |-> <<>>,
   variantToFormsMap |-> <<>>, abilitiesMap |-> <<>>, growthRatesList |-> <<>>,
   growthRatesMap |-> <<>>, rows |-> <<>>, csvContent |-> <<>>]

\* the process that owns the promises is running
Alive == pc \notin {"done", "aborted"}

\* what get() found and returned to the wrapped function
Found(t, src, file) == [t EXCEPT !.source = src, !.file = file]

\* a fn(item) promise is fulfilled: Promise.all records it
Fulfil(t, task) ==
  /\ tasks' = [tasks EXCEPT ![t] = [task EXCEPT !.pc = "resolved"]]
  /\ calls' = [calls EXCEPT
       ![t[1]].order = Append(@, t[2]),
       ![t[1]].reordered = @ \/ \E n \in DOMAIN calls[t[1]].order :
                                   calls[t[1]].order[n] > t[2]]

\* mutant: the rejection of a fn(item) promise is not noticed by the loop
RejectUnnoticed(t) ==
  /\ tasks' = [tasks EXCEPT ![t].pc = "rejected"]
  /\ UNCHANGED <<calls, pc, mem, locals>>

\* a fn(item) promise is rejected: Promise.all rejects at once, so batch()
\* throws out of its loop; inside main() the rejection reaches the top-level
\* await and the process exits
Reject(t) ==
  /\ IF pc = "lib"
       THEN /\ tasks' = [tasks EXCEPT ![t].pc = "rejected"]
            /\ calls' = [calls EXCEPT ![t[1]] =
                 IF @.status = "window"
                   THEN [@ EXCEPT !.status = "failed", !.error = t[2]]
                   ELSE @]
            /\ UNCHANGED <<pc, mem, locals>>
       ELSE /\ pc' = "aborted"
            /\ tasks' = <<>>
            /\ calls' = <<>>
            /\ mem' = [c \in Caches |-> <<>>]
            /\ locals' = EmptyLocals

\* mutant: the loop goes on as soon as one promise of the window is fulfilled
JoinReadyOnFirst(c) ==
  /\ calls[c].status = "window"
  /\ \E j \in Window(calls[c]) : tasks[<<c, j>>].pc = "resolved"

JoinReady(c) ==
  /\ calls[c].status = "window"
  /\ \A j \in Window(calls[c]) : tasks[<<c, j>>].pc = "resolved"

\* mutant: get() reports a miss whatever the file holds
ReadFileDoneAlwaysMisses(t) ==
  LET f == calls[t[1]]
      k == CacheKey(f.op, Item(f, t[2]))
      d == cacheDir(f.cache)
  IN  /\ tasks[t].pc = "reading"
      /\ stats' = [stats EXCEPT ![f.cache].fromApi = @ + 1]
      /\ remoteCalls' =
           Bump(remoteCalls, <<f.op, RemoteName(f.op, Item(f, t[2]))>>, 1)
      /\ tasks' = [tasks EXCEPT ![t] =
           [Found(@, "miss", IF FileExists(d, getPath(k))
                               THEN "malformed" ELSE "absent")
              EXCEPT !.pc = "fetching"]]
      /\ UNCHANGED <<mem, calls, disk, dirs, pc, locals, run, lastRun,
                     committed>>

\* mutant: a record found on disk is returned but not kept in memory
ReadFileDoneNoBackfill(t) ==
  LET f == calls[t[1]]
      k == CacheKey(f.op, Item(f, t[2]))
      d == cacheDir(f.cache)
  IN  /\ tasks[t].pc = "reading"
      /\ IF FileExists(d, getPath(k)) /\ Parses(disk[d][getPath(k)])
           THEN LET val == JSONparse(disk[d][getPath(k)])
                IN  /\ stats' = [stats EXCEPT ![f.cache].fromDisk = @ + 1]
                    /\ Fulfil(t, [Found(tasks[t], "disk", "parsed") EXCEPT
                                    !.val = val])
                    /\ UNCHANGED <<mem, remoteCalls>>
           ELSE /\ stats' = [stats EXCEPT ![f.cache].fromApi = @ + 1]
                /\ remoteCalls' =
                     Bump(remoteCalls, <<f.op, RemoteName(f.op, Item(f, t[2]))>>, 1)
                /\ tasks' = [tasks EXCEPT ![t] =
                     [Found(@, "miss", IF FileExists(d, getPath(k))
                                         THEN "malformed" ELSE "absent")
                        EXCEPT !.pc = "fetching"]]
                /\ UNCHANGED <<mem, calls>>
      /\ UNCHANGED <<disk, dirs, pc, locals, run, lastRun, committed>>

\* await fs.readFile(file) in get() completes; a hit is backfilled and
\* returned, anything else is a miss and the wrapped function calls fn(key)
ReadFileDone(t) ==
  LET f == calls[t[1]]
      k == CacheKey(f.op, Item(f, t[2]))
      d == cacheDir(f.cache)
  IN  /\ tasks[t].pc = "reading"
      /\ IF FileExists(d, getPath(k)) /\ Parses(disk[d][getPath(k)])
           THEN LET val == JSONparse(disk[d][getPath(k)])
                IN  /\ mem' = [mem EXCEPT ![f.cache] = Put(@, k, val)]
                    /\ stats' = [stats EXCEPT ![f.cache].fromDisk = @ + 1]
                    /\ Fulfil(t, [Found(tasks[t], "disk", "parsed") EXCEPT
                                    !.val = val])
                    /\ UNCHANGED remoteCalls
           ELSE /\ stats' = [stats EXCEPT ![f.cache].fromApi = @ + 1]
                /\ remoteCalls' =
                     Bump(remoteCalls, <<f.op, RemoteName(f.op, Item(f, t[2]))>>, 1)
                /\ tasks' = [tasks EXCEPT ![t] =
                     [Found(@, "miss", IF FileExists(d, getPath(k))
                                         THEN "malformed" ELSE "absent")
                        EXCEPT !.pc = "fetching"]]
                /\ UNCHANGED <<mem, calls>>
      /\ UNCHANGED <<disk, dirs, pc, locals, run, lastRun, committed>>

\* mutant: the wrapped function returns the record without its last field
FetchOkReturnsPart(t) ==
  LET f == calls[t[1]]
      val == Upstream(f.op, RemoteName(f.op, Item(f, t[2])))
  IN  /\ tasks[t].pc = "fetching"
      /\ IF f.cache = "none"
           THEN /\ Fulfil(t, [tasks[t] EXCEPT !.val = val])
                /\ UNCHANGED mem
           ELSE /\ mem' = [mem EXCEPT ![f.cache] =
                             Put(@, CacheKey(f.op, Item(f, t[2])), val)]
                /\ tasks' = [tasks EXCEPT ![t].pc = "mkdir",
                                          ![t].val = SubSeq(val, 1, Len(val) - 1)]
                /\ UNCHANGED calls
      /\ UNCHANGED <<stats, disk, dirs, remoteCalls, pc, locals, run, lastRun,
                     committed>>

\* await fn(key) completes with a record: set() stores it in memory and
\* asks for the directory; a bare fn fulfils its promise
FetchOk(t) ==
  LET f == calls[t[1]]
      val == Upstream(f.op, RemoteName(f.op, Item(f, t[2])))
  IN  /\ tasks[t].pc = "fetching"
      /\ IF f.cache = "none"
           THEN /\ Fulfil(t, [tasks[t] EXCEPT !.val = val])
                /\ UNCHANGED mem
           ELSE /\ mem' = [mem EXCEPT ![f.cache] =
                             Put(@, CacheKey(f.op, Item(f, t[2])), val)]
                /\ tasks' = [tasks EXCEPT ![t].pc = "mkdir", ![t].val = val]
                /\ UNCHANGED calls
      /\ UNCHANGED <<stats, disk, dirs, remoteCalls, pc, locals, run, lastRun,
                     committed>>

\* mutant: a failed fetch also empties the directory of its cache
FetchFailWipesCache(t) ==
  /\ tasks[t].pc = "fetching"
  /\ Reject(t)
  /\ disk' = [disk EXCEPT ![cacheDir(calls[t[1]].cache)] = <<>>]
  /\ UNCHANGED <<stats, dirs, remoteCalls, run, lastRun, committed>>

\* mutant: a failed fetch leaves an empty entry for its key in memory
FetchFailPoisonsMemory(t) ==
  /\ tasks[t].pc = "fetching"
  /\ IF pc = "lib" /\ calls[t[1]].cache # "none"
       THEN /\ tasks' = [tasks EXCEPT ![t].pc = "rejected"]
            /\ calls' = [calls EXCEPT ![t[1]] =
                 IF @.status = "window"
                   THEN [@ EXCEPT !.status = "failed", !.error = t[2]]
                   ELSE @]
            /\ mem' = [mem EXCEPT ![calls[t[1]].cache] =
                         Put(@, CacheKey(calls[t[1]].op, Item(calls[t[1]], t[2])), None)]
            /\ UNCHANGED <<pc, locals>>
       ELSE Reject(t)
  /\ UNCHANGED <<stats, disk, dirs, remoteCalls, run, lastRun, committed>>

\* await fn(key) fails
FetchFail(t) ==
  /\ tasks[t].pc = "fetching"
  /\ Reject(t)
  /\ UNCHANGED <<stats, disk, dirs, remoteCalls, run, lastRun, committed>>

\* await fs.mkdir(dirname, {recursive: true}) completes; writeFile starts
MkdirDone(t) ==
  /\ tasks[t].pc = "mkdir"
  /\ dirs' = dirs \cup {cacheDir(calls[t[1]].cache)}
  /\ tasks' = [tasks EXCEPT ![t].pc = "open"]
  /\ UNCHANGED <<mem, stats, disk, calls, remoteCalls, pc, locals, run, lastRun,
                 committed>>

\* mutant: set() resolves as soon as the file is open, the write pending
OpenDoneResolves(t) ==
  LET f == calls[t[1]]
      k == CacheKey(f.op, Item(f, t[2]))
  IN  /\ tasks[t].pc = "open"
      /\ disk' = [disk EXCEPT ![cacheDir(f.cache)] = Put(@, getPath(k), <<>>)]
      /\ Fulfil(t, tasks[t])
      /\ committed' = [committed EXCEPT ![f.cache] = Put(@, k, tasks[t].val)]
      /\ UNCHANGED <<mem, stats, dirs, remoteCalls, pc, locals, run, lastRun>>

\* fs.writeFile opens the file for writing, which creates or empties it
OpenDone(t) ==
  LET f == calls[t[1]]
  IN  /\ tasks[t].pc = "open"
      /\ disk' = [disk EXCEPT ![cacheDir(f.cache)] =
                    Put(@, getPath(CacheKey(f.op, Item(f, t[2]))), <<>>)]
      /\ tasks' = [tasks EXCEPT ![t].pc = "write"]
      /\ UNCHANGED <<mem, stats, dirs, calls, remoteCalls, pc, locals, run,
                     lastRun, committed>>

\* mutant: set() resolves although the text never reaches the file
WriteDoneLosesText(t) ==
  LET f == calls[t[1]]
  IN  /\ tasks[t].pc = "write"
      /\ Fulfil(t, tasks[t])
      /\ committed' = [committed EXCEPT ![f.cache] =
                         Put(@, CacheKey(f.op, Item(f, t[2])), tasks[t].val)]
      /\ UNCHANGED <<mem, stats, disk, dirs, remoteCalls, pc, locals, run,
                     lastRun>>

\* the text is written; await fs.writeFile resolves, set() resolves and the
\* wrapped function returns the fetched value
WriteDone(t) ==
  LET f == calls[t[1]]
      k == CacheKey(f.op, Item(f, t[2]))
  IN  /\ tasks[t].pc = "write"
      /\ disk' = [disk EXCEPT ![cacheDir(f.cache)] =
                    Put(@, getPath(k), JSONstringify(tasks[t].val))]
      /\ Fulfil(t, tasks[t])
      /\ committed' = [committed EXCEPT ![f.cache] = Put(@, k, tasks[t].val)]
      /\ UNCHANGED <<mem, stats, dirs, remoteCalls, pc, locals, run, lastRun>>

(***************************************************************************)
(* The loop of batch() and batchMap()                                      *)
(***************************************************************************)
\* JavaScript values as the row holds them: a tag, then the payload
Undefined == <<"undefined", "">>

Str(text) == <<"string", text>>

Bool(b) == <<"boolean", b>>

GCD(a, b) ==
  LET RECURSIVE Go(_, _)
      Go(x, y) == IF y = 0 THEN x ELSE Go(y, x % y)
  IN  Go(a, b)

\* the number n / d (n >= 0, d > 0), in lowest terms
Ratio(n, d) == <<"number", n \div GCD(n, d), d \div GCD(n, d)>>

Num(n) == IF n >= 0 THEN Ratio(n, 1) ELSE <<"number", n, 1>>

\* a ?? b
Coalesce(a, b) == IF a[1] = "undefined" THEN b ELSE a

Remove(f, k) == [x \in DOMAIN f \ {k} |-> f[x]]

\* o[k] = v on an object
PutField(o, k, v) ==
  IF Has(o, k)
    THEN [n \in DOMAIN o |-> IF o[n][1] = k THEN <<k, v>> ELSE o[n]]
    ELSE Append(o, <<k, v>>)

\* o[k] ?? dflt
Lookup(o, k, dflt) == IF Has(o, k) THEN Get(o, k) ELSE dflt

\* arr.find((n) => n.language.name === 'en'), then found[prop] or fallback
getEnglishProp(arr, prop, fallback) ==
  IF \E n \in DOMAIN arr : Get(arr[n], "language") = "en"
    THEN LET first == CHOOSE n \in DOMAIN arr :
                        /\ Get(arr[n], "language") = "en"
                        /\ \A m \in 1..(n - 1) : Get(arr[m], "language") # "en"
         IN  Get(arr[first], prop)
    ELSE fallback

\* what the mapper handed to batchMap returns for a fetched record
Mapper(op, item, val) ==
  CASE op = "ability" ->
         << <<"name", getEnglishProp(Get(val, "names"), "name", item)>>,
            <<"description",
              getEnglishProp(Get(val, "effect_entries"), "short_effect", "")>> >>
    [] op = "growth-rate" ->
         IF 100 \in DOMAIN Get(val, "levels")
           THEN Get(Get(val, "levels")[100], "experience")
           ELSE 0
    [] OTHER -> val

\* a mapper given to a stand-alone batchMap: after the fetch of its item it
\* returns, as its table says for the index it was called with, undefined, the
\* empty string or the index (0 for the first item)
MappedResult(mapper, arg) ==
  CASE mapper[arg + 1] = "undefined" -> Undefined
    [] mapper[arg + 1] = "empty" -> Str("")
    [] OTHER -> Num(arg)

\* String(item): the items of main() are strings; a stand-alone batchMap is
\* also given numbers
String(op, item) ==
  IF op # "mapped" THEN item
  ELSE IF item[1] = "number" THEN ToString(item[2])
  ELSE item[2]

\* results[idx] !== undefined: both mappers of main() always return a value
\* (an object literal; a number, 0 by default), and so does a bare fetch
MapperReturns(op, item, val) == op \in {"ability", "growth-rate", "raw"}

\* mutant: the values are collected in the order of fulfilment
PromiseAllByCompletion(c) ==
  [n \in 1..Len(calls[c].order) |-> tasks[<<c, calls[c].order[n]>>].val]

\* the array Promise.all resolves to: one slot per promise, by position
PromiseAll(c) ==
  LET f == calls[c]
  IN  [n \in 1..Cardinality(Window(f)) |-> tasks[<<c, f.i + n - 1>>].val]

\* the indexes the mappers of the window were called with, by position
MapperArgs(c) ==
  LET f == calls[c]
  IN  [n \in 1..Cardinality(Window(f)) |-> tasks[<<c, f.i + n - 1>>].arg]

\* results.push(...values) of batch; the forEach of batchMap
Collect(f, values, args) ==
  IF f.kind = "batch" THEN f.results \o values
  ELSE LET RECURSIVE Each(_, _)
           Each(out, n) ==
             IF n > Len(values) THEN out
             ELSE LET item == f.items[f.i + n]
                      r == IF f.op = "mapped"
                             THEN MappedResult(f.mapper, args[n])
                             ELSE Mapper(f.op, item, values[n])
                      defined == IF f.op = "mapped"
                                   THEN r[1] # "undefined"
                                   ELSE MapperReturns(f.op, item, values[n])
                  IN  Each(IF defined
                             THEN PutField(out, String(f.op, item), r)
                             ELSE out,
                           n + 1)
       IN  Each(f.results, 1)

\* mutant: the loop also waits after its last window
MoreWindowsOrLast(f) == f.i < Len(f.items)

\* i + batchSize < items.length: a window follows the current one
MoreWindows(f) == f.i + f.batchSize < Len(f.items)

\* the window's Promise.all has resolved: collect, then wait for the timer,
\* go on with the next window, or return
WindowJoin(c) ==
  LET f == calls[c]
      g == [f EXCEPT !.results = Collect(f, PromiseAll(c), MapperArgs(c)), !.order = <<>>]
      rest == [t \in DOMAIN tasks \ {<<c, j>> : j \in Window(f)} |-> tasks[t]]
      more == MoreWindows(f)
  IN  /\ JoinReady(c)
      /\ IF more /\ f.delayMs # 0
           THEN Commit([Sync EXCEPT !.tasks = rest,
                                    !.calls[c] = [g EXCEPT !.status = "delay",
                                                           !.delays = Min(@ + 1, Len(f.items))]])
         ELSE IF more
           THEN Commit(IssueWindow(
                  [Sync EXCEPT !.tasks = rest,
                               !.calls[c] = [g EXCEPT !.i = @ + f.batchSize]], c))
         ELSE Commit([Sync EXCEPT !.tasks = rest,
                                  !.calls[c] = [g EXCEPT !.status = "done",
                                                         !.i = @ + f.batchSize]])
      /\ UNCHANGED <<mem, disk, dirs, pc, locals, run, lastRun, committed>>

\* setTimeout(res, delayMs) fires: the loop issues the next window
TimerFire(c) ==
  /\ calls[c].status = "delay"
  /\ Commit(IssueWindow(
       [Sync EXCEPT !.calls[c] = [@ EXCEPT !.status = "window",
                                           !.i = @ + calls[c].batchSize]], c))
  /\ UNCHANGED <<mem, disk, dirs, pc, locals, run, lastRun, committed>>

(***************************************************************************)
(* main(): the five stages, the rows and the CSV file                      *)
(***************************************************************************)
BatchSize == 20
GrowthBatchSize == 10
DelayMs == 100

Cat(seqs) ==
  LET RECURSIVE Go(_)
      Go(n) == IF n > Len(seqs) THEN <<>> ELSE seqs[n] \o Go(n + 1)
  IN  Go(1)

\* mutant: the names are not deduplicated
DistinctKeepsAll(xs) == xs

\* Array.from(new Set(xs)): first occurrences, in order
Distinct(xs) ==
  LET RECURSIVE Go(_, _)
      Go(n, acc) ==
        IF n > Len(xs) THEN acc
        ELSE Go(n + 1,
                IF \E m \in DOMAIN acc : acc[m] = xs[n] THEN acc
                ELSE Append(acc, xs[n]))
  IN  Go(1, <<>>)

\* species.flatMap((specie) => speciesToVariantsMap[specie.name] || [])
AllVariants(L) ==
  Cat([n \in DOMAIN L.species |->
         Lookup(L.speciesToVariantsMap, Get(L.species[n], "name"), <<>>)])

AllAbilityNames(L) ==
  LET vs == AllVariants(L)
  IN  Distinct(Cat([n \in DOMAIN vs |->
        [a \in DOMAIN Get(vs[n], "abilities") |->
           Get(Get(Get(vs[n], "abilities")[a], "ability"), "name")]]))

(***************************************************************************)
(* The label tables of models.ts                                           *)
(***************************************************************************)
GenerationNumber ==
  << <<"generation-i", 1>>,
     <<"generation-ii", 2>>,
     <<"generation-iii", 3>>,
     <<"generation-iv", 4>>,
     <<"generation-v", 5>>,
     <<"generation-vi", 6>>,
     <<"generation-vii", 7>>,
     <<"generation-viii", 8>>,
     <<"generation-ix", 9>> >>

TypeLabels ==
  << <<"normal", "Normal">>,
     <<"fighting", "Fighting">>,
     <<"flying", "Flying">>,
     <<"poison", "Poison">>,
     <<"ground", "Ground">>,
     <<"rock", "Rock">>,
     <<"bug", "Bug">>,
     <<"ghost", "Ghost">>,
     <<"steel", "Steel">>,
     <<"fire", "Fire">>,
     <<"water", "Water">>,
     <<"grass", "Grass">>,
     <<"electric", "Electric">>,
     <<"psychic", "Psychic">>,
     <<"ice", "Ice">>,
     <<"dragon", "Dragon">>,
     <<"dark", "Dark">>,
     <<"fairy", "Fairy">> >>

EggGroupLabels ==
  << <<"monster", "Monster">>,
     <<"water1", "Water 1">>,
     <<"bug", "Bug">>,
     <<"flying", "Flying">>,
     <<"ground", "Ground">>,
     <<"fairy", "Fairy">>,
     <<"plant", "Plant">>,
     <<"humanshape", "Human-Like">>,
     <<"water3", "Water 3">>,
     <<"mineral", "Mineral">>,
     <<"indeterminate", "Amorphous">>,
     <<"water2", "Water 2">>,
     <<"ditto", "Ditto">>,
     <<"dragon", "Dragon">>,
     <<"no-eggs", "Undiscovered">> >>

GrowthRateLabels ==
  << <<"slow", "Slow">>,
     <<"medium", "Medium">>,
     <<"fast", "Fast">>,
     <<"medium-slow", "Medium Slow">>,
     <<"slow-then-very-fast", "Erratic">>,
     <<"fast-then-very-slow", "fluctuating">> >>

ColorLabels ==
  << <<"black", "Black">>,
     <<"blue", "Blue">>,
     <<"brown", "Brown">>,
     <<"gray", "Gray">>,
     <<"green", "Green">>,
     <<"pink", "Pink">>,
     <<"purple", "Purple">>,
     <<"red", "Red">>,
     <<"white", "White">>,
     <<"yellow", "Yellow">> >>

ShapeLabels ==
  << <<"ball", "Ball">>,
     <<"squiggle", "Squiggle">>,
     <<"fish", "Fish">>,
     <<"arms", "Arms">>,
     <<"blob", "Blob">>,
     <<"upright", "Upright">>,
     <<"legs", "Legs">>,
     <<"quadruped", "Quadruped">>,
     <<"wings", "Wings">>,
     <<"tentacles", "Tentacles">>,
     <<"heads", "Heads">>,
     <<"humanoid", "Humanoid">>,
     <<"bug-wings", "Bug wings">>,
     <<"armor", "Armor">> >>

StatKey ==
  << "hp", "attack", "defense", "special-attack", "special-defense", "speed" >>

\* the members every object literal inherits from Object.prototype
ObjectPrototype ==
  {"constructor", "toString", "toLocaleString", "valueOf", "hasOwnProperty",
   "isPrototypeOf", "propertyIsEnumerable", "__proto__", "__defineGetter__",
   "__defineSetter__", "__lookupGetter__", "__lookupSetter__"}

\* table[key] on an object literal: an own entry, an inherited member, or
\* undefined; the key undefined reads the property named "undefined"
Member(table, key, kind) ==
  LET name == IF key[1] = "undefined" THEN "undefined" ELSE key[2]
  IN  IF Has(table, name)
        THEN (IF kind = "number" THEN Num(Get(table, name))
                                 ELSE Str(Get(table, name)))
      ELSE IF name \in ObjectPrototype THEN <<"function", name>>
      ELSE Undefined

\* list[n]?.name, n counted from 1
NameAt(list, n) ==
  IF n \in DOMAIN list THEN Str(Get(list[n], "name")) ELSE Undefined

(***************************************************************************)
(* The row of one variant                                                  *)
(***************************************************************************)
\* abilitiesMap[ref?.ability.name]?.[field] ?? ref?.ability.name ?? dflt
AbilityField(L, refs, pick, field, dflt) ==
  IF pick = 0 THEN dflt
  ELSE LET name == Get(Get(refs[pick], "ability"), "name")
       IN  IF Has(L.abilitiesMap, name)
             THEN Str(Get(Get(L.abilitiesMap, name), field))
             ELSE Str(name)

\* mutant: the hidden ability is sought past the two positional entries
HiddenIndexPastSlots(refs) ==
  IF \E n \in DOMAIN refs : n > 2 /\ Get(refs[n], "is_hidden")
    THEN CHOOSE n \in DOMAIN refs : n > 2 /\ Get(refs[n], "is_hidden")
    ELSE 0

\* variant.abilities.find((a) => a.is_hidden), 0 when there is none
HiddenIndex(refs) ==
  IF \E n \in DOMAIN refs : Get(refs[n], "is_hidden")
    THEN CHOOSE n \in DOMAIN refs :
           /\ Get(refs[n], "is_hidden")
           /\ \A m \in 1..(n - 1) : ~Get(refs[m], "is_hidden")
    ELSE 0

\* mutant: the stat of a kind is read at the position of the kind
StatFieldByPosition(list, kind, prop) ==
  LET k == CHOOSE n \in DOMAIN StatKey : StatKey[n] = kind
  IN  IF k \in DOMAIN list THEN Num(Get(list[k], prop)) ELSE Num(0)

\* variant.stats.find((s) => s.stat.name === kind)?.[prop] ?? 0
StatField(list, kind, prop) ==
  IF \E n \in DOMAIN list : Get(Get(list[n], "stat"), "name") = kind
    THEN LET first == CHOOSE n \in DOMAIN list :
                        /\ Get(Get(list[n], "stat"), "name") = kind
                        /\ \A m \in 1..(n - 1) :
                             Get(Get(list[m], "stat"), "name") # kind
         IN  Num(Get(list[first], prop))
    ELSE Num(0)

\* the decimal digits of n
Digits(n) ==
  LET RECURSIVE Go(_)
      Go(x) == IF x < 10 THEN <<x>> ELSE Append(Go(x \div 10), x % 10)
  IN  Go(n)

\* text.padStart(width, '0') on a text of digits
PadStart(ds, width) ==
  [n \in 1..(width - Len(ds)) |-> 0] \o ds

\* mutant: a mythical species is recognised before a legendary one
CategoryMythicalFirst(specie) ==
  IF Get(specie, "is_baby") THEN "Baby"
  ELSE IF Get(specie, "is_mythical") THEN "Mythical"
  ELSE IF Get(specie, "is_legendary") THEN "Legendary"
  ELSE "Ordinary"

\* mutant: the male percentage is computed whatever the gender rate
GenderMaleUnguarded(rate) == <<"number", 800 - rate * 100, 8>>

\* rate >= 0 ? 100 - (rate / 8) * 100 : undefined
GenderMale(rate) ==
  IF rate >= 0 THEN Ratio(800 - rate * 100, 8) ELSE Undefined

\* rate >= 0 ? (rate / 8) * 100 : undefined
GenderFemale(rate) ==
  IF rate >= 0 THEN Ratio(rate * 100, 8) ELSE Undefined

\* mutant: an unknown generation is left without a default
GenerationUndefaulted(specie) ==
  Member(GenerationNumber, Str(Get(Get(specie, "generation"), "name")), "number")

\* GenerationNumber[specie.generation.name] ?? 0
Generation(specie) ==
  Coalesce(Member(GenerationNumber,
                  Str(Get(Get(specie, "generation"), "name")), "number"),
           Num(0))

\* specie.is_baby ? 'Baby' : specie.is_legendary ? 'Legendary' : ...
Category(specie) ==
  IF Get(specie, "is_baby") THEN "Baby"
  ELSE IF Get(specie, "is_legendary") THEN "Legendary"
  ELSE IF Get(specie, "is_mythical") THEN "Mythical"
  ELSE "Ordinary"

\* forms.find((f) => f.is_default)?.names, <<>> standing for undefined,
\* on which getEnglishProp returns its fallback
DefaultFormNames(forms) ==
  IF \E n \in DOMAIN forms : Get(forms[n], "is_default")
    THEN LET first == CHOOSE n \in DOMAIN forms :
                        /\ Get(forms[n], "is_default")
                        /\ \A m \in 1..(n - 1) : ~Get(forms[m], "is_default")
         IN  Get(forms[first], "names")
    ELSE <<>>

RowOf(L, specie, variant) ==
  LET refs == Get(variant, "abilities")
      statList == Get(variant, "stats")
      types == Get(variant, "types")
      forms == Lookup(L.variantToFormsMap, Get(variant, "name"), <<>>)
      second == IF Len(refs) > 1 THEN 2 ELSE 0
      hidden == HiddenIndex(refs)
      rate == Get(specie, "gender_rate")
      imageId == PadStart(Digits(Get(specie, "id")), 4)
      variantName ==
        IF Get(variant, "is_default") \/ Get(specie, "name") = Get(variant, "name")
          THEN getEnglishProp(Get(specie, "names"), "name", "")
          ELSE getEnglishProp(DefaultFormNames(forms), "name", "")
  IN  << <<"dexId", Num(Get(specie, "id"))>>,
         <<"imageUrl",
           <<"string", "sprite", imageId,
             IF Get(variant, "is_default") THEN "" ELSE Get(variant, "name")>> >>,
         <<"speciesSlug", Str(Get(specie, "name"))>>,
         <<"slug", Str(Get(variant, "name"))>>,
         <<"species", Str(getEnglishProp(Get(specie, "names"), "name", ""))>>,
         <<"variant", Str(variantName)>>,
         <<"genera", Str(getEnglishProp(Get(specie, "genera"), "genus", ""))>>,
         <<"generation", Generation(specie)>>,
         <<"type1", Member(TypeLabels, Str(Get(Get(types[1], "type"), "name")), "string")>>,
         <<"type2",
           IF Len(types) > 1
             THEN Member(TypeLabels, Str(Get(Get(types[2], "type"), "name")), "string")
             ELSE Undefined>>,
         <<"height", Ratio(Get(variant, "height"), 10)>>,
         <<"weight", Ratio(Get(variant, "weight"), 10)>>,
         <<"ability1", AbilityField(L, refs, 1, "name", Undefined)>>,
         <<"ability2", AbilityField(L, refs, second, "name", Undefined)>>,
         <<"abilityHidden", AbilityField(L, refs, hidden, "name", Undefined)>>,
         <<"ability1Description", AbilityField(L, refs, 1, "description", Str(""))>>,
         <<"ability2Description",
           AbilityField(L, refs, second, "description", Str(""))>>,
         <<"abilityHiddenDescription",
           AbilityField(L, refs, hidden, "description", Str(""))>>,
         <<"hp", StatField(statList, StatKey[1], "base_stat")>>,
         <<"attack", StatField(statList, StatKey[2], "base_stat")>>,
         <<"defense", StatField(statList, StatKey[3], "base_stat")>>,
         <<"specialAttack", StatField(statList, StatKey[4], "base_stat")>>,
         <<"specialDefense", StatField(statList, StatKey[5], "base_stat")>>,
         <<"speed", StatField(statList, StatKey[6], "base_stat")>>,
         <<"evHp", StatField(statList, StatKey[1], "effort")>>,
         <<"evAttack", StatField(statList, StatKey[2], "effort")>>,
         <<"evDefense", StatField(statList, StatKey[3], "effort")>>,
         <<"evSpecialAttack", StatField(statList, StatKey[4], "effort")>>,
         <<"evSpecialDefense", StatField(statList, StatKey[5], "effort")>>,
         <<"evSpeed", StatField(statList, StatKey[6], "effort")>>,
         <<"catchRate", Num(Get(specie, "capture_rate"))>>,
         <<"baseHappiness", Num(Get(specie, "base_happiness"))>>,
         <<"baseExp", Num(Get(variant, "base_experience"))>>,
         <<"totalExp",
           Num(Lookup(L.growthRatesMap, Get(Get(specie, "growth_rate"), "name"), 0))>>,
         <<"growthRate",
           Member(GrowthRateLabels,
                  Str(Get(Get(specie, "growth_rate"), "name")), "string")>>,
         <<"genderMale", GenderMale(rate)>>,
         <<"genderFemale", GenderFemale(rate)>>,
         <<"genderless", Bool(rate = -1)>>,
         <<"eggCycles", Num(Get(specie, "hatch_counter"))>>,
         <<"eggGroup1",
           Coalesce(Member(EggGroupLabels,
                           NameAt(Get(specie, "egg_groups"), 1), "string"),
                    Undefined)>>,
         <<"eggGroup2",
           Coalesce(Member(EggGroupLabels,
                           NameAt(Get(specie, "egg_groups"), 2), "string"),
                    Undefined)>>,
         <<"color",
           Member(ColorLabels, Str(Get(Get(specie, "color"), "name")), "string")>>,
         <<"shape",
           Member(ShapeLabels, Str(Get(Get(specie, "shape"), "name")), "string")>>,
         <<"category", Str(Category(specie))>> >>

\* mutant: the rows follow the insertion order of speciesToVariantsMap
RowsByCompletion(L) ==
  Cat([n \in DOMAIN L.speciesToVariantsMap |->
         LET key == L.speciesToVariantsMap[n][1]
             variants == L.speciesToVariantsMap[n][2]
             specie == L.species[CHOOSE m \in DOMAIN L.species :
                                   Get(L.species[m], "name") = key]
         IN  [v \in DOMAIN variants |-> RowOf(L, specie, variants[v])]])

\* species.flatMap((specie) => variants.map((variant) => row))
Rows(L) ==
  Cat([n \in DOMAIN L.species |->
         LET variants == Lookup(L.speciesToVariantsMap,
                                Get(L.species[n], "name"), <<>>)
         IN  [v \in DOMAIN variants |-> RowOf(L, L.species[n], variants[v])]])

\* the fields the Row type of models.ts declares, in its order
RowSchema ==
  << "dexId", "imageUrl", "speciesSlug", "slug",
     "species", "variant", "isDefault", "genera",
     "generation", "type1", "type2", "height",
     "weight", "ability1", "ability2", "abilityHidden",
     "ability1Description", "ability2Description", "abilityHiddenDescription", "hp",
     "attack", "defense", "specialAttack", "specialDefense",
     "speed", "evHp", "evAttack", "evDefense",
     "evSpecialAttack", "evSpecialDefense", "evSpeed", "catchRate",
     "baseHappiness", "baseExp", "totalExp", "growthRate",
     "genderMale", "genderFemale", "genderless", "eggCycles",
     "eggGroup1", "eggGroup2", "color", "shape",
     "category">>

\* the characters of each field name
Spell ==
  [dexId |-> <<"d", "e", "x", "I", "d">>,
   imageUrl |-> <<"i", "m", "a", "g", "e", "U", "r", "l">>,
   speciesSlug |-> <<"s", "p", "e", "c", "i", "e", "s", "S", "l", "u", "g">>,
   slug |-> <<"s", "l", "u", "g">>,
   species |-> <<"s", "p", "e", "c", "i", "e", "s">>,
   variant |-> <<"v", "a", "r", "i", "a", "n", "t">>,
   isDefault |-> <<"i", "s", "D", "e", "f", "a", "u", "l", "t">>,
   genera |-> <<"g", "e", "n", "e", "r", "a">>,
   generation |-> <<"g", "e", "n", "e", "r", "a", "t", "i", "o", "n">>,
   type1 |-> <<"t", "y", "p", "e", "1">>,
   type2 |-> <<"t", "y", "p", "e", "2">>,
   height |-> <<"h", "e", "i", "g", "h", "t">>,
   weight |-> <<"w", "e", "i", "g", "h", "t">>,
   ability1 |-> <<"a", "b", "i", "l", "i", "t", "y", "1">>,
   ability2 |-> <<"a", "b", "i", "l", "i", "t", "y", "2">>,
   abilityHidden |-> <<"a", "b", "i", "l", "i", "t", "y", "H", "i", "d", "d", "e", "n">>,
   ability1Description |-> <<"a", "b", "i", "l", "i", "t", "y", "1", "D", "e", "s", "c", "r", "i", "p", "t", "i", "o", "n">>,
   ability2Description |-> <<"a", "b", "i", "l", "i", "t", "y", "2", "D", "e", "s", "c", "r", "i", "p", "t", "i", "o", "n">>,
   abilityHiddenDescription |-> <<"a", "b", "i", "l", "i", "t", "y", "H", "i", "d", "d", "e", "n", "D", "e", "s", "c", "r", "i", "p", "t", "i", "o", "n">>,
   hp |-> <<"h", "p">>,
   attack |-> <<"a", "t", "t", "a", "c", "k">>,
   defense |-> <<"d", "e", "f", "e", "n", "s", "e">>,
   specialAttack |-> <<"s", "p", "e", "c", "i", "a", "l", "A", "t", "t", "a", "c", "k">>,
   specialDefense |-> <<"s", "p", "e", "c", "i", "a", "l", "D", "e", "f", "e", "n", "s", "e">>,
   speed |-> <<"s", "p", "e", "e", "d">>,
   evHp |-> <<"e", "v", "H", "p">>,
   evAttack |-> <<"e", "v", "A", "t", "t", "a", "c", "k">>,
   evDefense |-> <<"e", "v", "D", "e", "f", "e", "n", "s", "e">>,
   evSpecialAttack |-> <<"e", "v", "S", "p", "e", "c", "i", "a", "l", "A", "t", "t", "a", "c", "k">>,
   evSpecialDefense |-> <<"e", "v", "S", "p", "e", "c", "i", "a", "l", "D", "e", "f", "e", "n", "s", "e">>,
   evSpeed |-> <<"e", "v", "S", "p", "e", "e", "d">>,
   catchRate |-> <<"c", "a", "t", "c", "h", "R", "a", "t", "e">>,
   baseHappiness |-> <<"b", "a", "s", "e", "H", "a", "p", "p", "i", "n", "e", "s", "s">>,
   baseExp |-> <<"b", "a", "s", "e", "E", "x", "p">>,
   totalExp |-> <<"t", "o", "t", "a", "l", "E", "x", "p">>,
   growthRate |-> <<"g", "r", "o", "w", "t", "h", "R", "a", "t", "e">>,
   genderMale |-> <<"g", "e", "n", "d", "e", "r", "M", "a", "l", "e">>,
   genderFemale |-> <<"g", "e", "n", "d", "e", "r", "F", "e", "m", "a", "l", "e">>,
   genderless |-> <<"g", "e", "n", "d", "e", "r", "l", "e", "s", "s">>,
   eggCycles |-> <<"e", "g", "g", "C", "y", "c", "l", "e", "s">>,
   eggGroup1 |-> <<"e", "g", "g", "G", "r", "o", "u", "p", "1">>,
   eggGroup2 |-> <<"e", "g", "g", "G", "r", "o", "u", "p", "2">>,
   color |-> <<"c", "o", "l", "o", "r">>,
   shape |-> <<"s", "h", "a", "p", "e">>,
   category |-> <<"c", "a", "t", "e", "g", "o", "r", "y">>]

LowerLetters ==
  <<"a", "b", "c", "d", "e", "f", "g", "h", "i", "j", "k", "l", "m",
    "n", "o", "p", "q", "r", "s", "t", "u", "v", "w", "x", "y", "z">>

UpperLetters ==
  <<"A", "B", "C", "D", "E", "F", "G", "H", "I", "J", "K", "L", "M",
    "N", "O", "P", "Q", "R", "S", "T", "U", "V", "W", "X", "Y", "Z">>

\* ch.toLowerCase()
toLowerCase(ch) ==
  IF \E n \in DOMAIN UpperLetters : UpperLetters[n] = ch
    THEN LowerLetters[CHOOSE n \in DOMAIN UpperLetters : UpperLetters[n] = ch]
    ELSE ch

\* str.replace(/([a-z])([A-Z])/g, '$1-$2').toLowerCase(): a hyphen between a
\* lowercase letter and the capital that follows it, then all in lowercase
toKebab(name) ==
  LET cs == Spell[name]
      RECURSIVE Go(_)
      Go(n) ==
        IF n > Len(cs) THEN ""
        ELSE (IF /\ n > 1
                 /\ \E m \in DOMAIN LowerLetters : LowerLetters[m] = cs[n - 1]
                 /\ \E m \in DOMAIN UpperLetters : UpperLetters[m] = cs[n]
                THEN "-" ELSE "")
             \o toLowerCase(cs[n]) \o Go(n + 1)
  IN  Go(1)

\* undefined is written as the empty cell, any other value as String(val)
\* (the cells of this model hold no comma, quote or newline)
csvEscape(val) ==
  IF val[1] = "undefined" THEN <<"text", "">> ELSE <<"text">> \o val

\* [csvHeaders, ...csvRows]: one sequence of cells per line
CsvContent(rows) ==
  <<[n \in DOMAIN rows[1] |-> toKebab(rows[1][n][1])]>>
    \o [r \in DOMAIN rows |->
          [n \in DOMAIN rows[r] |-> csvEscape(rows[r][n][2])]]

SpeciesCall == <<"species", "">>
AbilitiesCall == <<"abilities", "">>
GrowthCall == <<"growth-rates", "">>

\* run 0, where a specification has one, is a run of the first script, whose
\* main() hands the bare client functions to batch(); the runs from 1 on are
\* runs of the cached script
Cached == run >= 1

\* the cache a stage wraps its fetch function with, and reports the counters of
CacheOf(name) == IF Cached THEN name ELSE "none"

\* the calls of one stage, started in list order by the synchronous map()
StartEach(S, op, cache, stage, owners, itemsOf) ==
  LET RECURSIVE Go(_, _)
      Go(T, n) ==
        IF n > Len(owners) THEN T
        ELSE Go(StartCall(T, <<stage, Get(owners[n], "name")>>,
                          Frame("batch", op, cache, cache,
                                Get(owners[n], itemsOf), BatchSize, DelayMs)),
                n + 1)
  IN  Go(S, 1)

\* getPokemonSpeciesList resolves: batch(speciesList.results, getSpecies, ...)
SpeciesListOk ==
  /\ pc = "specieslist"
  /\ locals' = [locals EXCEPT !.speciesList = SpeciesList]
  /\ Commit(StartCall(Sync, SpeciesCall,
       Frame("batch", "species", CacheOf("species"), CacheOf("species"),
             SpeciesList,
             BatchSize, DelayMs)))
  /\ pc' = "species"
  /\ UNCHANGED <<mem, disk, dirs, run, lastRun, committed>>

\* a list request fails: main() rejects and the process exits
ListFail ==
  /\ pc \in {"specieslist", "growthlist"}
  /\ pc' = "aborted"
  /\ tasks' = <<>>
  /\ calls' = <<>>
  /\ mem' = [c \in Caches |-> <<>>]
  /\ locals' = EmptyLocals
  /\ UNCHANGED <<stats, disk, dirs, remoteCalls, run, lastRun, committed>>

\* species = await batch(...): the variants of every species are requested
SpeciesJoin ==
  /\ pc = "species"
  /\ SpeciesCall \in DOMAIN calls
  /\ calls[SpeciesCall].status = "done"
  /\ locals' = [locals EXCEPT !.species = calls[SpeciesCall].results]
  /\ Commit(StartEach([Sync EXCEPT !.calls = Remove(calls, SpeciesCall)],
                      "pokemon", CacheOf("pokemon"), "variants",
                      calls[SpeciesCall].results, "varieties"))
  /\ pc' = "variants"
  /\ UNCHANGED <<mem, disk, dirs, run, lastRun, committed>>

\* speciesToVariantsMap[specie.name] = await batch(...)
VariantsBatchDone(c) ==
  /\ pc = "variants"
  /\ calls[c].status = "done"
  /\ locals' = [locals EXCEPT !.speciesToVariantsMap =
                  PutField(@, c[2], calls[c].results)]
  /\ calls' = Remove(calls, c)
  /\ UNCHANGED <<mem, stats, disk, dirs, tasks, remoteCalls, pc, run, lastRun, committed>>

\* the Promise.all over the species resolves: the forms of every variant
VariantsJoin ==
  /\ pc = "variants"
  /\ DOMAIN calls = {}
  /\ Commit(StartEach(Sync, "form", CacheOf("form"), "forms",
                      AllVariants(locals), "forms"))
  /\ pc' = "forms"
  /\ UNCHANGED <<mem, disk, dirs, locals, run, lastRun, committed>>

\* variantToFormsMap[variant.name] = await batch(...)
FormsBatchDone(c) ==
  /\ pc = "forms"
  /\ calls[c].status = "done"
  /\ locals' = [locals EXCEPT !.variantToFormsMap =
                  PutField(@, c[2], calls[c].results)]
  /\ calls' = Remove(calls, c)
  /\ UNCHANGED <<mem, stats, disk, dirs, tasks, remoteCalls, pc, run, lastRun, committed>>

\* mutant: the ability stage does not wait for the variant stage to end
FormsJoinEarly ==
  /\ pc \in {"variants", "forms"}
  /\ pc = "forms" => DOMAIN calls = {}
  /\ Commit(StartCall(Sync, AbilitiesCall,
       Frame("batchMap", "ability", CacheOf("ability"), "none",
             AllAbilityNames(locals), BatchSize, DelayMs)))
  /\ pc' = "abilities"
  /\ UNCHANGED <<mem, disk, dirs, locals, run, lastRun, committed>>

\* the Promise.all over the variants resolves: batchMap(allAbilityNames, ...)
FormsJoin ==
  /\ pc = "forms"
  /\ DOMAIN calls = {}
  /\ Commit(StartCall(Sync, AbilitiesCall,
       Frame("batchMap", "ability", CacheOf("ability"), "none",
             AllAbilityNames(locals), BatchSize, DelayMs)))
  /\ pc' = "abilities"
  /\ UNCHANGED <<mem, disk, dirs, locals, run, lastRun, committed>>

\* abilitiesMap = await batchMap(...); then getGrowthRatesList is requested
AbilitiesJoin ==
  /\ pc = "abilities"
  /\ AbilitiesCall \in DOMAIN calls
  /\ calls[AbilitiesCall].status = "done"
  /\ locals' = [locals EXCEPT !.abilitiesMap = calls[AbilitiesCall].results]
  /\ calls' = Remove(calls, AbilitiesCall)
  /\ remoteCalls' = Bump(remoteCalls, <<"growth-rate-list", "">>, 1)
  /\ pc' = "growthlist"
  /\ UNCHANGED <<mem, stats, disk, dirs, tasks, run, lastRun, committed>>

\* getGrowthRatesList resolves: batchMap(names, ..., 10, 100)
GrowthListOk ==
  /\ pc = "growthlist"
  /\ locals' = [locals EXCEPT !.growthRatesList = GrowthRatesList]
  /\ Commit(StartCall(Sync, GrowthCall,
       Frame("batchMap", "growth-rate", CacheOf("growth-rate"), "none",
             [n \in DOMAIN GrowthRatesList |-> Get(GrowthRatesList[n], "name")],
             GrowthBatchSize, DelayMs)))
  /\ pc' = "growth"
  /\ UNCHANGED <<mem, disk, dirs, run, lastRun, committed>>

\* mutant: the output directory is made before the header is derived
GrowthJoinMkdirFirst ==
  /\ pc = "growth"
  /\ GrowthCall \in DOMAIN calls
  /\ calls[GrowthCall].status = "done"
  /\ LET L == [locals EXCEPT !.growthRatesMap = calls[GrowthCall].results]
     IN  IF Rows(L) = <<>>
           THEN /\ pc' = "aborted"
                /\ locals' = EmptyLocals
                /\ mem' = [c \in Caches |-> <<>>]
           ELSE /\ pc' = "outmkdir"
                /\ locals' = [L EXCEPT !.rows = Rows(L),
                                       !.csvContent = CsvContent(Rows(L))]
                /\ UNCHANGED mem
  /\ dirs' = dirs \cup {OutDir}
  /\ calls' = Remove(calls, GrowthCall)
  /\ UNCHANGED <<stats, disk, tasks, remoteCalls, run, lastRun, committed>>

\* growthRatesMap = await batchMap(...); the rows are built, the CSV text is
\* derived (Object.keys(rows[0]) throws when there is no row) and the output
\* directory is asked for
GrowthJoin ==
  /\ pc = "growth"
  /\ GrowthCall \in DOMAIN calls
  /\ calls[GrowthCall].status = "done"
  /\ LET L == [locals EXCEPT !.growthRatesMap = calls[GrowthCall].results]
     IN  IF Rows(L) = <<>>
           THEN /\ pc' = "aborted"
                /\ locals' = EmptyLocals
                /\ mem' = [c \in Caches |-> <<>>]
           ELSE /\ pc' = "outmkdir"
                /\ locals' = [L EXCEPT !.rows = Rows(L),
                                       !.csvContent = CsvContent(Rows(L))]
                /\ UNCHANGED mem
  /\ calls' = Remove(calls, GrowthCall)
  /\ UNCHANGED <<stats, disk, dirs, tasks, remoteCalls, run, lastRun, committed>>

\* await fs.mkdir(path.dirname(outputPath), {recursive: true}) completes
OutMkdirDone ==
  /\ pc = "outmkdir"
  /\ dirs' = dirs \cup {OutDir}
  /\ pc' = "outopen"
  /\ UNCHANGED <<mem, stats, disk, calls, tasks, remoteCalls, locals, run, lastRun, committed>>

\* mutant: the output file is written although the CSV text is not complete
OutOpenDoneEarly ==
  /\ pc \in {"abilities", "outopen"}
  /\ disk' = [disk EXCEPT ![OutDir] = Put(@, OutFile, <<>>)]
  /\ dirs' = dirs \cup {OutDir}
  /\ pc' = IF pc = "outopen" THEN "outwrite" ELSE pc
  /\ UNCHANGED <<mem, stats, calls, tasks, remoteCalls, locals, run, lastRun, committed>>

\* fs.writeFile(outputPath, csvContent) opens the file: created or emptied
OutOpenDone ==
  /\ pc = "outopen"
  /\ disk' = [disk EXCEPT ![OutDir] = Put(@, OutFile, <<>>)]
  /\ pc' = "outwrite"
  /\ UNCHANGED <<mem, stats, dirs, calls, tasks, remoteCalls, locals, run, lastRun, committed>>

\* the CSV text is written, main() returns and the process ends
OutWriteDone ==
  /\ pc = "outwrite"
  /\ disk' = [disk EXCEPT ![OutDir] = Put(@, OutFile, locals.csvContent)]
  /\ pc' = "done"
  /\ mem' = [c \in Caches |-> <<>>]
  /\ locals' = EmptyLocals
  /\ UNCHANGED <<stats, dirs, calls, tasks, remoteCalls, run, lastRun, committed>>

\* the output file as a reader finds it
Output ==
  IF FileExists(OutDir, OutFile)
    THEN [exists |-> TRUE, text |-> disk[OutDir][OutFile]]
    ELSE [exists |-> FALSE, text |-> <<>>]

\* the script is run again: a new process over the same files, which
\* constructs its caches and requests the species list
NextRun ==
  /\ pc \in {"done", "aborted"}
  /\ run < MaxRuns
  /\ run' = run + 1
  /\ lastRun' = [end |-> pc, out |-> Output, sets |-> committed]
  /\ UNCHANGED committed
  /\ pc' = "specieslist"
  /\ mem' = [c \in Caches |-> <<>>]
  /\ stats' = [c \in Caches |-> ZeroStats]
  /\ calls' = <<>>
  /\ tasks' = <<>>
  /\ locals' = EmptyLocals
  /\ remoteCalls' = (<<"species-list", "">> :> 1)
  /\ UNCHANGED <<disk, dirs>>

(***************************************************************************)
(* The pipeline: main() run up to MaxRuns times over the same directories  *)
(***************************************************************************)
\* a promise continuation is runnable
ContinuationPending ==
  \/ \E c \in DOMAIN calls : JoinReady(c)
  \/ pc # "lib" /\ \E c \in DOMAIN calls : calls[c].status = "done"
  \/ pc \in {"variants", "forms"} /\ DOMAIN calls = {}

\* an I/O completion can be dispatched
Idle == Alive /\ ~ContinuationPending

\* no execution before the first one: no cache directory, no output file
NoRun == [end |-> "none", out |-> [exists |-> FALSE, text |-> <<>>],
          sets |-> [c \in Caches |-> <<>>]]

Init ==
  /\ mem = [c \in Caches |-> <<>>]
  /\ stats = [c \in Caches |-> ZeroStats]
  /\ disk = [d \in Dirs |-> <<>>]
  /\ dirs = {}
  /\ lastRun = NoRun
  /\ committed = [c \in Caches |-> <<>>]
  /\ calls = <<>>
  /\ tasks = <<>>
  /\ remoteCalls = (<<"species-list", "">> :> 1)
  /\ pc = "specieslist"
  /\ locals = EmptyLocals
  /\ run = 1

TaskStep ==
  \E t \in DOMAIN tasks :
    /\ Idle
    /\ \/ ReadFileDone(t)
       \/ FetchOk(t)
       \/ FetchFail(t)
       \/ MkdirDone(t)
       \/ OpenDone(t)
       \/ WriteDone(t)

Join == \E c \in DOMAIN calls : WindowJoin(c)

MainStep ==
  \/ Idle /\ SpeciesListOk
  \/ Idle /\ ListFail
  \/ SpeciesJoin
  \/ \E c \in DOMAIN calls : VariantsBatchDone(c)
  \/ VariantsJoin
  \/ \E c \in DOMAIN calls : FormsBatchDone(c)
  \/ FormsJoin
  \/ AbilitiesJoin
  \/ Idle /\ GrowthListOk
  \/ GrowthJoin
  \/ Idle /\ OutMkdirDone
  \/ Idle /\ OutOpenDone
  \/ Idle /\ OutWriteDone
  \/ NextRun

Next == TaskStep \/ Join \/ MainStep

Spec == Init /\ [][Next]_vars

(***************************************************************************)
(* batch() and batchMap() on their own, over a fetch function that is not  *)
(* wrapped: any item list, window size and delay, any completion order     *)
(***************************************************************************)
LibCall == <<"call", "1">>
LibCall2 == <<"call", "2">>

BatchKeys == {"k1", "k2", "k3"}

SeqsUpTo(S, n) == UNION {[1..m -> S] : m \in 0..n}

\* the items given to a stand-alone batchMap: the number 1 and the string
\* "1" have the same String(item)
MapItems == {Str("1"), Num(1), Str("k")}

\* what a mapper of a stand-alone batchMap returns for an index
MapperOutcomes == {"undefined", "empty", "index"}

InitLib ==
  /\ mem = [c \in Caches |-> <<>>]
  /\ pc = "lib"
  /\ locals = EmptyLocals
  /\ run = 1
  /\ lastRun = NoRun
  /\ committed = [c \in Caches |-> <<>>]

InitBatch ==
  /\ InitLib
  /\ disk = [d \in Dirs |-> <<>>]
  /\ dirs = {}
  /\ \E frame \in
          {Frame(kind, "raw", "none", "none", items, size, delayMs) :
             items \in SeqsUpTo(BatchKeys, MaxItems), size \in 1..MaxBatchSize,
             delayMs \in {0, DelayMs}, kind \in {"batch", "batchMap"}}
          \cup
          UNION {{[Frame("batchMap", "mapped", "none", "none", items, size, 0)
                     EXCEPT !.mapper = mapper] :
                    mapper \in [DOMAIN items -> MapperOutcomes]} :
                   items \in SeqsUpTo(MapItems, MaxItems),
                   size \in 1..MaxBatchSize} :
       LET S == StartCall([calls |-> <<>>, tasks |-> <<>>,
                           stats |-> [c \in Caches |-> ZeroStats],
                           remoteCalls |-> <<>>],
                          LibCall, frame)
       IN  /\ calls = S.calls
           /\ tasks = S.tasks
           /\ stats = S.stats
           /\ remoteCalls = S.remoteCalls

Timer == \E c \in DOMAIN calls : Idle /\ TimerFire(c)

FetchStep == \E t \in DOMAIN tasks : Idle /\ (FetchOk(t) \/ FetchFail(t))

NextBatch == FetchStep \/ Join \/ Timer

SpecBatch == InitBatch /\ [][NextBatch]_vars

(***************************************************************************)
(* One cache shared by concurrent batch() calls over wrapped fetches, on a *)
(* directory that may hold complete and damaged records; the process may   *)
(* restart, which discards the in-memory tier                              *)
(***************************************************************************)
CacheKeys == {"overgrow", "static"}

\* what a record file of the directory may hold when the process starts
FileStates(k) ==
  {JSONstringify(AbilityRecord(k)), Truncated(JSONstringify(AbilityRecord(k))), <<>>}

InitCache ==
  /\ InitLib
  /\ stats = [c \in Caches |-> ZeroStats]
  /\ calls = <<>>
  /\ tasks = <<>>
  /\ remoteCalls = <<>>
  /\ \E present \in SUBSET CacheKeys :
       \E files \in [{getPath(k) : k \in present} -> UNION {FileStates(k) : k \in present}] :
         /\ \A k \in present : files[getPath(k)] \in FileStates(k)
         /\ disk = [d \in Dirs |-> IF d = cacheDir("ability") THEN files ELSE <<>>]
         /\ dirs = IF present = {} THEN {} ELSE {cacheDir("ability")}

\* some caller starts batch(items, getAbility, size, 0, label, abilityCache)
CallBatch(c, items, size) ==
  /\ Idle
  /\ c \notin DOMAIN calls
  /\ Commit(StartCall(Sync, c,
       Frame("batch", "ability", "ability", "ability", items, size, 0)))
  /\ UNCHANGED <<mem, disk, dirs, pc, locals, run, lastRun, committed>>

\* the process ends after its calls have settled and is started again:
\* new DiskMemoryCache instances over the same directories
Restart ==
  /\ run < MaxRuns
  /\ DOMAIN calls # {}
  /\ \A c \in DOMAIN calls : calls[c].status \in {"done", "failed"}
  /\ \A t \in DOMAIN tasks : tasks[t].pc \in {"resolved", "rejected"}
  /\ run' = run + 1
  /\ lastRun' = [lastRun EXCEPT !.end = "done", !.sets = committed]
  /\ mem' = [c \in Caches |-> <<>>]
  /\ stats' = [c \in Caches |-> ZeroStats]
  /\ calls' = <<>>
  /\ tasks' = <<>>
  /\ remoteCalls' = <<>>
  /\ UNCHANGED <<disk, dirs, pc, locals, committed>>

\* one caller batches up to two keys, a second one fetches a single key
Caller ==
  \/ \E items \in SeqsUpTo(CacheKeys, 2) \ {<<>>} :
       \E size \in 1..Min(MaxBatchSize, Len(items)) :
         CallBatch(LibCall, items, size)
  \/ \E k \in CacheKeys : CallBatch(LibCall2, <<k>>, 1)

NextCache == Caller \/ TaskStep \/ Join \/ Restart

SpecCache == InitCache /\ [][NextCache]_vars

(***************************************************************************)
(* The rows and the CSV file of main() over tables of any content: the     *)
(* run is taken where the last table is complete, with one species of one  *)
(* variant whose fields are drawn, or with no row at all                   *)
(***************************************************************************)
\* what the upstream may name that no table of models.ts holds
UnknownNames == {"unknown", "constructor"}

GenderRates == -1 .. 8

\* the injective lists over S: every order of every subset
Orderings(S) ==
  {q \in SeqsUpTo(S, Cardinality(S)) : \A n, m \in DOMAIN q : q[n] = q[m] => n = m}

\* the entry batchMap stores for an ability
AbilityEntry(name) == <<name, Mapper("ability", name, AbilityRecord(name))>>

\* the tables as the five stages leave them for one species of one variant
RowInput(specie, variant, abilitiesMap) ==
  [EmptyLocals EXCEPT
     !.speciesList = <<NamedResource("pokemon-species", Get(specie, "name"))>>,
     !.species = <<specie>>,
     !.speciesToVariantsMap = << <<Get(specie, "name"), <<variant>> >> >>,
     !.variantToFormsMap = << <<Get(variant, "name"), <<FormRecord(1, 1)>> >> >>,
     !.abilitiesMap = abilitiesMap,
     !.growthRatesList = GrowthRatesList]

\* the tables of a variant with the ability references of the catalogue
FullAbilitiesMap == [n \in 1..NumAbilities |-> AbilityEntry(AbilityNames[n])]

DrawnSpecies ==
  {PutField(PutField(PutField(PutField(SpeciesRecord(1),
     "is_baby", f[1]), "is_legendary", f[2]), "is_mythical", f[3]),
     "gender_rate", r) : f \in BOOLEAN \X BOOLEAN \X BOOLEAN, r \in GenderRates}

DrawnLabels ==
  LET Ids(known) == {known} \cup UnknownNames
      Groups == SeqsUpTo(Ids("monster"), 2)
  IN  {PutField(PutField(PutField(PutField(PutField(SpeciesRecord(1),
         "generation", NamedResource("generation", i[1])),
         "growth_rate", NamedResource("growth-rate", i[2])),
         "color", NamedResource("pokemon-color", i[3])),
         "shape", NamedResource("pokemon-shape", i[4])),
         "egg_groups", [n \in DOMAIN g |-> NamedResource("egg-group", g[n])]) :
       i \in Ids("generation-iii") \X Ids("medium-slow") \X Ids("green")
                \X Ids("quadruped"),
       g \in Groups}

DrawnStats ==
  {PutField(PokemonRecord(1, 1), "stats",
            [n \in DOMAIN q |-> StatEntry(StatNames[q[n]], 10 * q[n] + n, q[n] % 3)]) :
     q \in Orderings(DOMAIN StatNames)}

DrawnAbilityRefs ==
  {PutField(PokemonRecord(1, 1), "abilities",
            [n \in DOMAIN q |-> AbilityRef(AbilityNames[q[n][1]], q[n][2])]) :
     q \in SeqsUpTo((1..NumAbilities) \X BOOLEAN, MaxAbilityRefs) \ {<<>>}}

DrawnAbilitiesMaps ==
  {[n \in DOMAIN q |-> AbilityEntry(AbilityNames[q[n]])] :
     q \in {p \in Orderings(1..NumAbilities) :
              \A n \in DOMAIN p : n > 1 => p[n - 1] < p[n]}}

InitRow ==
  /\ mem = [c \in Caches |-> <<>>]
  /\ stats = [c \in Caches |-> ZeroStats]
  /\ disk = [d \in Dirs |-> <<>>]
  /\ dirs = {}
  /\ lastRun = NoRun
  /\ committed = [c \in Caches |-> <<>>]
  /\ tasks = <<>>
  /\ remoteCalls = <<>>
  /\ pc = "growth"
  /\ run = 1
  /\ calls = (GrowthCall :>
       [Frame("batchMap", "growth-rate", "growth-rate", "none",
              <<GrowthRateNames[1]>>, GrowthBatchSize, DelayMs)
          EXCEPT !.status = "done", !.i = GrowthBatchSize,
                 !.results = << <<GrowthRateNames[1],
                                  Mapper("growth-rate", GrowthRateNames[1],
                                         GrowthRateRecord(GrowthRateNames[1]))>> >>])
  /\ \/ \E specie \in DrawnSpecies \cup DrawnLabels :
          locals = RowInput(specie, PokemonRecord(1, 1), FullAbilitiesMap)
     \/ \E variant \in DrawnStats :
          locals = RowInput(SpeciesRecord(1), variant, FullAbilitiesMap)
     \/ \E variant \in DrawnAbilityRefs, abilitiesMap \in DrawnAbilitiesMaps :
          locals = RowInput(SpeciesRecord(1), variant, abilitiesMap)
     \/ locals = [EmptyLocals EXCEPT !.growthRatesList = GrowthRatesList]
     \/ locals = [RowInput(SpeciesRecord(1), PokemonRecord(1, 1), FullAbilitiesMap)
                    EXCEPT !.speciesToVariantsMap = <<>>]

NextRow == GrowthJoin \/ OutMkdirDone \/ OutOpenDone \/ OutWriteDone

SpecRow == InitRow /\ [][NextRow]_vars

(***************************************************************************)
(* The variant stage of main() over many species: one batch() call per     *)
(* species is started by the Promise.all over the species.  The species    *)
(* stage has resolved on a cold cache; every species has one variety.  The *)
(* file reads of the variant stage complete in the order they were asked   *)
(* for and the upstream has not answered yet: one schedule of the program, *)
(* enough to count the requests that are in flight together.               *)
(***************************************************************************)
MaxFan == 21          \* species handed to the variant stage

FanName(s) == "species-" \o ToString(s)

FanList(n) == [s \in 1..n |-> NamedResource("pokemon-species", FanName(s))]

\* the record of a species with a single variety of its own name
FanSpecies(n) ==
  [s \in 1..n |->
     PutField(PutField(SpeciesRecord(1), "name", FanName(s)),
              "varieties",
              << << <<"is_default", TRUE>>,
                    <<"pokemon", NamedResource("pokemon", FanName(s))>> >> >>)]

\* the species cache as the species stage leaves it
FanCached(n) ==
  [k \in {CacheKey("species", FanList(n)[s]) : s \in 1..n} |->
     FanSpecies(n)[CHOOSE s \in 1..n : CacheKey("species", FanList(n)[s]) = k]]

InitFan ==
  \E n \in 1..MaxFan :
    /\ mem = [c \in Caches |-> IF c = "species" THEN FanCached(n) ELSE <<>>]
    /\ committed = [c \in Caches |-> IF c = "species" THEN FanCached(n) ELSE <<>>]
    /\ disk = [d \in Dirs |->
                 IF d = cacheDir("species")
                   THEN [file \in {getPath(k) : k \in DOMAIN FanCached(n)} |->
                           JSONstringify(FanCached(n)[
                             CHOOSE k \in DOMAIN FanCached(n) : getPath(k) = file])]
                   ELSE <<>>]
    /\ dirs = {cacheDir("species")}
    /\ stats = [c \in Caches |->
                  IF c = "species"
                    THEN [ZeroStats EXCEPT
                            !.fromApi = n - BatchSize * ((n - 1) \div BatchSize)]
                    ELSE ZeroStats]
    /\ remoteCalls = (<<"species-list", "">> :> 1)
                       @@ [r \in {<<"species", FanName(s)>> : s \in 1..n} |-> 1]
    /\ calls = (SpeciesCall :>
         [Frame("batch", "species", "species", "species", FanList(n),
                BatchSize, DelayMs)
            EXCEPT !.status = "done",
                   !.i = BatchSize * (((n - 1) \div BatchSize) + 1),
                   !.results = FanSpecies(n)])
    /\ tasks = <<>>
    /\ pc = "species"
    /\ locals = [EmptyLocals EXCEPT !.speciesList = FanList(n)]
    /\ run = 1
    /\ lastRun = NoRun

\* the oldest pending file read completes
FanReadDone ==
  \E t \in DOMAIN tasks :
    /\ Idle
    /\ tasks[t].pc = "reading"
    /\ \A u \in DOMAIN tasks :
         tasks[u].pc = "reading" =>
           (CHOOSE s \in 1..MaxFan : FanName(s) = t[1][2])
             <= (CHOOSE s \in 1..MaxFan : FanName(s) = u[1][2])
    /\ ReadFileDone(t)

NextFan == SpeciesJoin \/ FanReadDone

SpecFan == InitFan /\ [][NextFan]_vars

(***************************************************************************)
(* One wrapped fetch after another on one cache, over arguments that are   *)
(* strings or objects whose fields were added in any order                 *)
(***************************************************************************)
MaxKeyArgs == 2       \* most arguments handed to the wrapped function

\* the objects with the fields of o, added in any order
FieldOrders(o) == {[n \in DOMAIN o |-> o[p[n]]] : p \in Permutations(DOMAIN o)}

ObjectArgs == UNION {FieldOrders(SpeciesList[s]) : s \in 1..NumSpecies}

InitKey ==
  /\ InitLib
  /\ disk = [d \in Dirs |-> <<>>]
  /\ dirs = {}
  /\ \E frame \in
          {Frame("batch", "species", "species", "species", items, 1, 0) :
             items \in SeqsUpTo(ObjectArgs, MaxKeyArgs) \ {<<>>}}
          \cup
          {Frame("batch", "ability", "ability", "ability", items, 1, 0) :
             items \in SeqsUpTo(CacheKeys, MaxKeyArgs) \ {<<>>}} :
       LET S == StartCall([calls |-> <<>>, tasks |-> <<>>,
                           stats |-> [c \in Caches |-> ZeroStats],
                           remoteCalls |-> <<>>],
                          LibCall, frame)
       IN  /\ calls = S.calls
           /\ tasks = S.tasks
           /\ stats = S.stats
           /\ remoteCalls = S.remoteCalls

NextKey == TaskStep \/ Join

SpecKey == InitKey /\ [][NextKey]_vars

(***************************************************************************)
(* A stand-alone batch() or batchMap() call whose window size may be 0,    *)
(* under an event loop that runs every continuation and timer that is due  *)
(* and an upstream that settles every request                              *)
(***************************************************************************)
InitLive ==
  /\ InitLib
  /\ disk = [d \in Dirs |-> <<>>]
  /\ dirs = {}
  /\ \E frame \in
          {Frame(kind, "raw", "none", "none", items, size, delayMs) :
             items \in SeqsUpTo(BatchKeys, MaxItems), size \in 0..MaxBatchSize,
             delayMs \in {0, DelayMs}, kind \in {"batch", "batchMap"}} :
       LET S == StartCall([calls |-> <<>>, tasks |-> <<>>,
                           stats |-> [c \in Caches |-> ZeroStats],
                           remoteCalls |-> <<>>],
                          LibCall, frame)
       IN  /\ calls = S.calls
           /\ tasks = S.tasks
           /\ stats = S.stats
           /\ remoteCalls = S.remoteCalls

SpecLive ==
  /\ InitLive
  /\ [][NextBatch]_vars
  /\ WF_vars(FetchStep)
  /\ WF_vars(Join)
  /\ WF_vars(Timer)

(***************************************************************************)
(* The first script (batch() over the bare client functions) run once,     *)
(* followed by runs of the cached script over the directories it finds     *)
(***************************************************************************)
InitTwin ==
  /\ mem = [c \in Caches |-> <<>>]
  /\ stats = [c \in Caches |-> ZeroStats]
  /\ disk = [d \in Dirs |-> <<>>]
  /\ dirs = {}
  /\ lastRun = NoRun
  /\ committed = [c \in Caches |-> <<>>]
  /\ calls = <<>>
  /\ tasks = <<>>
  /\ remoteCalls = (<<"species-list", "">> :> 1)
  /\ pc = "specieslist"
  /\ locals = EmptyLocals
  /\ run = 0

SpecTwin == InitTwin /\ [][Next]_vars

(***************************************************************************)
(* Vocabulary of the properties                                            *)
(***************************************************************************)
TaskKey(t) == CacheKey(calls[t[1]].op, Item(calls[t[1]], t[2]))

TaskRequest(t) ==
  <<calls[t[1]].op, RemoteName(calls[t[1]].op, Item(calls[t[1]], t[2]))>>

Count(rc, req) == IF req \in DOMAIN rc THEN rc[req] ELSE 0

Total(rc) ==
  LET RECURSIVE Sum(_)
      Sum(rs) == IF rs = {} THEN 0
                 ELSE LET r == CHOOSE x \in rs : TRUE
                      IN  rc[r] + Sum(rs \ {r})
  IN  Sum(DOMAIN rc)

Range(q) == {q[n] : n \in DOMAIN q}

\* two objects with the same fields and values, in whatever order
DeepEqual(a, b) == Range(a) = Range(b) /\ Len(a) = Len(b)

ListRequests == {<<"species-list", "">>, <<"growth-rate-list", "">>}

\* the previous execution of the pipeline ran to completion
WarmRun == run >= 2 /\ lastRun.end = "done"

(***************************************************************************)
(* C1 (as stated): in a run over the cache left by a completed run, no     *)
(* request at all is issued to the upstream.                               *)
(***************************************************************************)
C1_NoRequestWhenWarm == WarmRun => Total(remoteCalls) = 0

(***************************************************************************)
(* C1 (amended): in a run over the cache left by a completed run, the only *)
(* requests issued to the upstream are the two list requests; every        *)
(* get-by-name lookup is resolved from the cache, none reaches the         *)
(* upstream.                                                               *)
(***************************************************************************)
C1_WarmRunIssuesOnlyLists ==
  WarmRun =>
    /\ DOMAIN remoteCalls \subseteq ListRequests
    /\ \A r \in DOMAIN remoteCalls : remoteCalls[r] = 1
    /\ \A t \in DOMAIN tasks :
         /\ tasks[t].pc \in {"reading", "resolved"}
         /\ tasks[t].source \in {"none", "disk"}

C1_Witness ==
  /\ WarmRun
  /\ pc = "done"
  /\ DOMAIN remoteCalls = ListRequests

C3_BatchKeepsInputOrder ==
  \A c \in DOMAIN calls :
    (calls[c].kind = "batch" /\ calls[c].status = "done") =>
      /\ Len(calls[c].results) = Len(calls[c].items)
      /\ \A n \in DOMAIN calls[c].items :
           calls[c].results[n] = RawResult(calls[c].items[n])

\* a call has returned although a later key's fetch completed before an
\* earlier key's
C3_Witness ==
  \E c \in DOMAIN calls :
    /\ calls[c].kind = "batch"
    /\ calls[c].status = "done"
    /\ calls[c].reordered
    /\ \E n, m \in DOMAIN calls[c].items : calls[c].items[n] # calls[c].items[m]

(***************************************************************************)
(* C4: within one call no fetch of a later window is issued before every   *)
(* fetch of the windows before it has resolved, so at most batchSize       *)
(* fetches of the call are in flight.                                      *)
(***************************************************************************)
InFlight(c) == {t \in DOMAIN tasks : t[1] = c /\ tasks[t].pc = "fetching"}

\* the index after the last item whose fetch has been issued
IssuedUpTo(f) ==
  IF f.status = "done" THEN Len(f.items)
  ELSE Min(f.i + f.batchSize, Len(f.items))

C4_WindowsAreSequential ==
  /\ [](\A c \in DOMAIN calls :
          LET f == calls[c]
          IN  /\ Total(remoteCalls) = IssuedUpTo(f)
              /\ Cardinality(InFlight(c)) <= f.batchSize
              /\ \A t \in DOMAIN tasks :
                   t[1] = c => t[2] \in f.i..(f.i + f.batchSize - 1))
  /\ [][\A c \in DOMAIN calls :
          Total(remoteCalls') > Total(remoteCalls) =>
            /\ calls[c].status = "window" =>
                 \A j \in Window(calls[c]) : <<c, j>> \in DOMAIN tasks
            /\ \A t \in DOMAIN tasks : t[1] = c => tasks[t].pc = "resolved"]_vars

\* the fetches of the second window are in flight after a first window of
\* several fetches has resolved
C4_Witness ==
  \E c \in DOMAIN calls :
    /\ calls[c].status = "window"
    /\ calls[c].i > 1
    /\ InFlight(c) = {<<c, j>> : j \in Window(calls[c])}

(***************************************************************************)
(* C5: in a run that starts with a cold cache, getAbilityByName is invoked *)
(* at most once for an ability identifier, and exactly once for every      *)
(* identifier referenced by a variant once the ability stage is over.      *)
(***************************************************************************)
ReferencedBy(name) ==
  {sv \in (1..NumSpecies) \X (1..MaxVarieties) :
     /\ sv[2] <= VarietyCount(sv[1])
     /\ \E n \in DOMAIN AbilityRefs(sv[1], sv[2]) :
          Get(Get(AbilityRefs(sv[1], sv[2])[n], "ability"), "name") = name}

C5_AbilityFetchedOnce ==
  run = 1 =>
    \A a \in DOMAIN AbilityNames :
      LET req == <<"ability", AbilityNames[a]>>
      IN  /\ Count(remoteCalls, req) <= 1
          /\ (ReferencedBy(AbilityNames[a]) # {}
                /\ pc \in {"growthlist", "growth", "outmkdir", "outopen",
                           "outwrite", "done"})
               => Count(remoteCalls, req) = 1

\* the cold run is over and an ability shared by variants of two species has
\* been requested once
C5_Witness ==
  /\ run = 1
  /\ pc = "done"
  /\ \E a \in DOMAIN AbilityNames :
       /\ \E x, y \in ReferencedBy(AbilityNames[a]) : x[1] # y[1]
       /\ Count(remoteCalls, <<"ability", AbilityNames[a]>>) = 1

(***************************************************************************)
(* C6: a wrapped fetch of a key that is in memory when the fetch starts    *)
(* returns the memory value at once; one whose record on disk is well      *)
(* formed when it is read returns the record's value; neither invokes the  *)
(* remote function.  The remote function is invoked, once, only by a       *)
(* wrapped fetch whose get() has reported a miss.                          *)
(***************************************************************************)
\* the record file of the task's key holds a complete record
WellFormedOnDisk(t) ==
  LET d == cacheDir(calls[t[1]].cache)
      file == getPath(TaskKey(t))
  IN  /\ FileExists(d, file)
      /\ disk[d][file] = JSONstringify(AbilityRecord(TaskKey(t)))

C6_HitShortCircuitsRemote ==
  [][/\ \A t \in DOMAIN tasks' \ DOMAIN tasks :
          LET f == calls'[t[1]]
              k == CacheKey(f.op, Item(f, t[2]))
          IN  k \in DOMAIN mem[f.cache] =>
                /\ tasks'[t].pc = "resolved"
                /\ tasks'[t].source = "memory"
                /\ tasks'[t].val = mem[f.cache][k]
                /\ Count(remoteCalls', <<f.op, k>>) = Count(remoteCalls, <<f.op, k>>)
     /\ \A t \in DOMAIN tasks \cap DOMAIN tasks' :
          (tasks[t].pc = "reading" /\ tasks'[t] # tasks[t] /\ WellFormedOnDisk(t)) =>
            /\ tasks'[t].pc = "resolved"
            /\ tasks'[t].source = "disk"
            /\ DeepEqual(tasks'[t].val, AbilityRecord(TaskKey(t)))
            /\ remoteCalls' = remoteCalls
     /\ \A r \in DOMAIN remoteCalls' :
          Count(remoteCalls', r) > Count(remoteCalls, r) =>
            /\ Count(remoteCalls', r) = Count(remoteCalls, r) + 1
            /\ \E t \in DOMAIN tasks \cap DOMAIN tasks' :
                 /\ TaskRequest(t) = r
                 /\ tasks[t].pc = "reading"
                 /\ tasks'[t].pc = "fetching"
                 /\ tasks'[t].source = "miss"
                 /\ ~WellFormedOnDisk(t)]_vars

\* a wrapped fetch has been answered from memory and the upstream has not
\* been asked for its key
C6_Witness ==
  \E t \in DOMAIN tasks :
    /\ tasks[t].pc = "resolved"
    /\ tasks[t].source = "memory"
    /\ Count(remoteCalls, TaskRequest(t)) = 0

(***************************************************************************)
(* C7: when the record file of a key is missing, empty or cut short, get() *)
(* reports a miss without raising; the wrapped fetch calls the remote      *)
(* function, writes the fetched value over the damaged record and returns  *)
(* it; a wrapped fetch is rejected only by a failure of the remote call.   *)
(***************************************************************************)
C7_CorruptRecordIsMiss ==
  [][\A t \in DOMAIN tasks \cap DOMAIN tasks' :
       LET d == cacheDir(calls[t[1]].cache)
           file == getPath(TaskKey(t))
       IN  /\ (tasks[t].pc = "reading" /\ tasks'[t] # tasks[t]
                 /\ ~WellFormedOnDisk(t)) =>
                /\ tasks'[t].pc = "fetching"
                /\ tasks'[t].source = "miss"
                /\ Count(remoteCalls', TaskRequest(t))
                     = Count(remoteCalls, TaskRequest(t)) + 1
           /\ (tasks'[t].pc = "rejected" /\ tasks[t].pc # "rejected") =>
                tasks[t].pc = "fetching"
           /\ (tasks[t].file = "malformed" /\ tasks'[t].pc = "resolved"
                 /\ tasks[t].pc # "resolved") =>
                /\ tasks[t].pc = "write"
                /\ tasks'[t].val = AbilityRecord(TaskKey(t))
                /\ d \in dirs'
                /\ file \in DOMAIN disk'[d]
                /\ disk'[d][file] = JSONstringify(AbilityRecord(TaskKey(t)))]_vars

\* a wrapped fetch that found a damaged record has returned the fetched
\* value and the record is whole again
C7_Witness ==
  \E t \in DOMAIN tasks :
    /\ tasks[t].pc = "resolved"
    /\ tasks[t].file = "malformed"
    /\ tasks[t].val = AbilityRecord(TaskKey(t))
    /\ WellFormedOnDisk(t)

(***************************************************************************)
(* C8: in every state of the pipeline, every value whose set() has         *)
(* resolved is held by the file of its key in the directory of its cache.  *)
(***************************************************************************)
C8_ResolvedSetIsOnDisk ==
  \A c \in Caches :
    \A k \in DOMAIN committed[c] :
      /\ FileExists(cacheDir(c), getPath(k))
      /\ disk[cacheDir(c)][getPath(k)] = JSONstringify(committed[c][k])

\* some set() has resolved while other writes of the same cache are pending
C8_Witness ==
  \E t, u \in DOMAIN tasks :
    /\ calls[t[1]].cache = calls[u[1]].cache
    /\ tasks[t].pc = "resolved"
    /\ tasks[t].source = "miss"
    /\ TaskKey(t) \in DOMAIN committed[calls[t[1]].cache]
    /\ tasks[u].pc \in {"mkdir", "open", "write"}

(***************************************************************************)
(* C9: once a fetch of a window has failed, the call has failed with the   *)
(* error of a failed fetch of that window (the error of the fetch, if only *)
(* one has failed), it never returns a result list, and no fetch of a      *)
(* later window is ever issued.                                            *)
(***************************************************************************)
Rejected(c) == {t \in DOMAIN tasks : t[1] = c /\ tasks[t].pc = "rejected"}

C9_FailedWindowFailsCall ==
  \A c \in DOMAIN calls :
    LET f == calls[c]
    IN  /\ Rejected(c) # {} =>
             /\ f.status = "failed"
             /\ <<c, f.error>> \in Rejected(c)
             /\ Total(remoteCalls) = Min(f.i + f.batchSize, Len(f.items))
             /\ \A t \in DOMAIN tasks : t[1] = c => t[2] \in Window(f)
        /\ f.status = "failed" => Rejected(c) # {}

\* a fetch of a window that is not the last has failed, every other fetch
\* of the window has settled, and the later windows have not been issued
C9_Witness ==
  \E c \in DOMAIN calls :
    LET f == calls[c]
    IN  /\ f.status = "failed"
        /\ f.i + f.batchSize < Len(f.items)
        /\ f.batchSize > 1
        /\ Cardinality(Rejected(c)) = 1
        /\ \A t \in DOMAIN tasks : tasks[t].pc \in {"resolved", "rejected"}

(***************************************************************************)
(* C10: the output file is as the previous run left it until the CSV text  *)
(* is complete; a run that is aborted leaves it so, and no fetch is        *)
(* pending, hence none can fail, once the output is being written.         *)
(***************************************************************************)
C10_NoOutputOnFailure ==
  /\ pc \notin {"outwrite", "done"} => Output = lastRun.out
  /\ pc \in {"outmkdir", "outopen", "outwrite", "done"} =>
       /\ DOMAIN tasks = {}
       /\ DOMAIN calls = {}
  /\ pc \in {"outmkdir", "outopen", "outwrite"} =>
       locals.csvContent = CsvContent(Rows(locals))

\* a run over the output of a completed run has been aborted by a failed
\* request, and the output of the completed run is intact
C10_Witness ==
  /\ pc = "aborted"
  /\ run = 2
  /\ lastRun.end = "done"
  /\ Output.exists
  /\ Output.text # <<>>
  /\ Output = lastRun.out

(***************************************************************************)
(* C11: while a run is in progress, a variant is looked up or requested    *)
(* only when the record of the species that lists it has been fetched, a   *)
(* form only when the record of the variant that lists it has been         *)
(* fetched, and an ability only when the record of every variant of every  *)
(* listed species has been fetched.                                        *)
(***************************************************************************)
\* the names a fetch of the kind op has been started for in this run
Started(op) ==
  {RemoteName(op, Item(calls[t[1]], t[2])) :
     t \in {u \in DOMAIN tasks : calls[u[1]].op = op}}
    \cup {r[2] : r \in {q \in DOMAIN remoteCalls : q[1] = op}}

\* the variant records main() holds
FetchedVariants == Range(AllVariants(locals))

C11_StagesFollowDependencies ==
  Alive =>
    /\ \A name \in Started("pokemon") :
         \E n \in DOMAIN locals.species :
           \E v \in DOMAIN Get(locals.species[n], "varieties") :
             Get(Get(Get(locals.species[n], "varieties")[v], "pokemon"), "name") = name
    /\ \A name \in Started("form") :
         \E variant \in FetchedVariants :
           \E f \in DOMAIN Get(variant, "forms") :
             Get(Get(variant, "forms")[f], "name") = name
    /\ Started("ability") # {} =>
         \A s \in 1..NumSpecies : \A v \in 1..VarietyCount(s) :
           PokemonRecord(s, v) \in FetchedVariants

\* the abilities are being fetched in a run that has fetched every species,
\* variant and form from the upstream
C11_Witness ==
  /\ pc = "abilities"
  /\ \E t \in DOMAIN tasks : tasks[t].pc = "fetching"
  /\ \A s \in 1..NumSpecies :
       /\ Count(remoteCalls, <<"species", SpeciesNames[s]>>) = 1
       /\ \A v \in 1..VarietyCount(s) :
            /\ Count(remoteCalls, <<"pokemon", VariantName(s, v)>>) = 1
            /\ Count(remoteCalls, <<"form", VariantName(s, v)>>) = 1

\* the (species, variant) pairs of the catalogue: the species in the order of
\* the species list, each with its varieties in the order of its variety list
CataloguePairs ==
  Cat([s \in 1..NumSpecies |->
         [v \in 1..VarietyCount(s) |->
            <<Str(SpeciesNames[s]), Str(VariantName(s, v))>>]])

RowsBuilt == pc \in {"outmkdir", "outopen", "outwrite"}

SpecieOf(row) ==
  CHOOSE specie \in Range(locals.species) :
    Str(Get(specie, "name")) = Get(row, "speciesSlug")

VariantOf(row) ==
  CHOOSE variant \in Range(AllVariants(locals)) :
    Str(Get(variant, "name")) = Get(row, "slug")

\* C13: the category of a row is Baby for a baby species, else Legendary for a
\* legendary one, else Mythical for a mythical one, else Ordinary
C13_CategoryPrecedence ==
  RowsBuilt =>
    \A n \in DOMAIN locals.rows :
      LET specie == SpecieOf(locals.rows[n])
          baby == Get(specie, "is_baby")
          legendary == Get(specie, "is_legendary")
          mythical == Get(specie, "is_mythical")
          category == Get(locals.rows[n], "category")
      IN  /\ category = Str("Baby") <=> baby
          /\ category = Str("Legendary") <=> ~baby /\ legendary
          /\ category = Str("Mythical") <=> ~baby /\ ~legendary /\ mythical
          /\ category = Str("Ordinary") <=> ~baby /\ ~legendary /\ ~mythical

\* the row of a species flagged legendary and mythical, and not baby
C13_Witness ==
  /\ RowsBuilt
  /\ \E n \in DOMAIN locals.rows :
       /\ ~Get(SpecieOf(locals.rows[n]), "is_baby")
       /\ Get(SpecieOf(locals.rows[n]), "is_legendary")
       /\ Get(SpecieOf(locals.rows[n]), "is_mythical")
       /\ Get(locals.rows[n], "category") = Str("Legendary")

\* C14: for a gender rate r of 0..8 the female percentage is r/8*100, the male
\* percentage is 100 minus it and genderless is false; for r = -1 both
\* percentages are undefined and genderless is true
C14_GenderPercentages ==
  RowsBuilt =>
    \A n \in DOMAIN locals.rows :
      LET r == Get(SpecieOf(locals.rows[n]), "gender_rate")
          male == Get(locals.rows[n], "genderMale")
          female == Get(locals.rows[n], "genderFemale")
          genderless == Get(locals.rows[n], "genderless")
      IN  /\ r \in 0..8 =>
               /\ female[1] = "number" /\ male[1] = "number"
               /\ female[2] * 8 = r * 100 * female[3]
               /\ male[2] * female[3] + female[2] * male[3]
                    = 100 * male[3] * female[3]
               /\ genderless = Bool(FALSE)
          /\ r = -1 =>
               /\ male = Undefined /\ female = Undefined
               /\ genderless = Bool(TRUE)
          /\ genderless = Bool(TRUE) => r = -1

\* the row of a species with three females in eight
C14_Witness ==
  /\ RowsBuilt
  /\ \E n \in DOMAIN locals.rows :
       /\ Get(SpecieOf(locals.rows[n]), "gender_rate") = 3
       /\ Get(locals.rows[n], "genderFemale") = <<"number", 75, 2>>
       /\ Get(locals.rows[n], "genderMale") = <<"number", 125, 2>>
       /\ Get(locals.rows[n], "genderless") = Bool(FALSE)

\* the ability references a row was built from, and their identifiers
RefsOf(row) == Get(VariantOf(row), "abilities")

RefName(ref) == Get(Get(ref, "ability"), "name")

Flagged(row) == {n \in DOMAIN RefsOf(row) : Get(RefsOf(row)[n], "is_hidden")}

\* the display name the upstream record of an ability carries, or the raw
\* identifier of an ability the ability table has no entry for
Resolved(name) ==
  IF Has(locals.abilitiesMap, name)
    THEN Str(AbilityDisplay[CHOOSE a \in DOMAIN AbilityNames :
                              AbilityNames[a] = name])
    ELSE Str(name)

\* C15: ability1 is resolved from the first entry of the ability list, ability2
\* from the second entry when there is one, abilityHidden from the entry
\* flagged hidden wherever it sits; the positional fields ignore the flag
C15_AbilitySlots ==
  RowsBuilt =>
    \A n \in DOMAIN locals.rows :
      LET row == locals.rows[n]
          refs == RefsOf(row)
      IN  Len(refs) >= 1 =>
            /\ Get(row, "ability1") = Resolved(RefName(refs[1]))
            /\ Get(row, "ability2") =
                 IF Len(refs) >= 2 THEN Resolved(RefName(refs[2]))
                                   ELSE Undefined
            /\ IF Flagged(row) = {}
                 THEN Get(row, "abilityHidden") = Undefined
                 ELSE \E h \in Flagged(row) :
                        Get(row, "abilityHidden") = Resolved(RefName(refs[h]))

\* the row of a variant whose first ability entry is the only one flagged
\* hidden: ability1 and abilityHidden both resolve from it
C15_Witness ==
  /\ RowsBuilt
  /\ \E n \in DOMAIN locals.rows :
       /\ Flagged(locals.rows[n]) = {1}
       /\ Len(RefsOf(locals.rows[n])) = 3
       /\ Get(locals.rows[n], "abilityHidden") = Get(locals.rows[n], "ability1")
       /\ Get(locals.rows[n], "abilityHidden") # Get(locals.rows[n], "ability2")
       /\ Get(locals.rows[n], "ability1") # Undefined

BaseFields ==
  <<"hp", "attack", "defense", "specialAttack", "specialDefense", "speed">>

EvFields ==
  <<"evHp", "evAttack", "evDefense", "evSpecialAttack", "evSpecialDefense",
    "evSpeed">>

\* the positions of the entries of a kind in the stat list a row was built from
EntriesOf(row, kind) ==
  {n \in DOMAIN Get(VariantOf(row), "stats") :
     Get(Get(Get(VariantOf(row), "stats")[n], "stat"), "name") = kind}

\* C17: each base-stat field and each EV field is the base value and the effort
\* of the stat entry with the identifier of its kind, wherever the entry sits
\* in the list, and 0 when the list has no entry of the kind
C17_StatsByIdentifier ==
  RowsBuilt =>
    \A n \in DOMAIN locals.rows : \A k \in DOMAIN StatNames :
      LET row == locals.rows[n]
          list == Get(VariantOf(row), "stats")
      IN  IF EntriesOf(row, StatNames[k]) = {}
            THEN /\ Get(row, BaseFields[k]) = <<"number", 0, 1>>
                 /\ Get(row, EvFields[k]) = <<"number", 0, 1>>
            ELSE \E e \in EntriesOf(row, StatNames[k]) :
                   /\ Get(row, BaseFields[k])
                        = <<"number", Get(list[e], "base_stat"), 1>>
                   /\ Get(row, EvFields[k])
                        = <<"number", Get(list[e], "effort"), 1>>

\* the row of a variant whose stat list starts with speed and has no hp entry
C17_Witness ==
  /\ RowsBuilt
  /\ \E n \in DOMAIN locals.rows :
       /\ EntriesOf(locals.rows[n], "speed") = {1}
       /\ EntriesOf(locals.rows[n], "attack") = {3}
       /\ EntriesOf(locals.rows[n], "hp") = {}
       /\ Get(locals.rows[n], "speed") = <<"number", 61, 1>>
       /\ Get(locals.rows[n], "attack") = <<"number", 23, 1>>
       /\ Get(locals.rows[n], "evAttack") = <<"number", 2, 1>>
       /\ Get(locals.rows[n], "hp") = <<"number", 0, 1>>

\* the six label fields, the table of each and the identifier each is looked
\* up with (a missing egg group reads the property named "undefined")
LabelFields ==
  {"generation", "growthRate", "color", "shape", "eggGroup1", "eggGroup2"}

LabelTable(field) ==
  CASE field = "generation" -> GenerationNumber
    [] field = "growthRate" -> GrowthRateLabels
    [] field = "color" -> ColorLabels
    [] field = "shape" -> ShapeLabels
    [] OTHER -> EggGroupLabels

LabelKeys(field) == {LabelTable(field)[n][1] : n \in DOMAIN LabelTable(field)}

Identifier(specie, field) ==
  LET groups == Get(specie, "egg_groups")
      Group(n) == IF n \in DOMAIN groups THEN Get(groups[n], "name")
                                         ELSE "undefined"
  IN  CASE field = "generation" -> Get(Get(specie, "generation"), "name")
        [] field = "growthRate" -> Get(Get(specie, "growth_rate"), "name")
        [] field = "color" -> Get(Get(specie, "color"), "name")
        [] field = "shape" -> Get(Get(specie, "shape"), "name")
        [] field = "eggGroup1" -> Group(1)
        [] OTHER -> Group(2)

\* C18 as stated: a label field whose identifier is not a key of its table is
\* undefined
C18_UnknownLabelUndefined ==
  RowsBuilt =>
    \A n \in DOMAIN locals.rows : \A field \in LabelFields :
      Identifier(SpecieOf(locals.rows[n]), field) \notin LabelKeys(field)
        => Get(locals.rows[n], field) = Undefined

\* C18, amended: the rows of species with identifiers outside the label tables
\* are built, and in them such a field is undefined, except that generation is
\* 0, and except that an identifier naming a member every object inherits
\* yields that member
C18_UnknownLabelDefaults ==
  [][pc = "growth" /\ pc' # "growth" /\ AllVariants(locals) # <<>> =>
       /\ pc' = "outmkdir"
       /\ Len(locals'.rows) = Len(AllVariants(locals))
       /\ \A n \in DOMAIN locals'.rows : \A field \in LabelFields :
            LET specie == CHOOSE sp \in Range(locals.species) :
                            Str(Get(sp, "name"))
                              = Get(locals'.rows[n], "speciesSlug")
                id == Identifier(specie, field)
            IN  id \notin LabelKeys(field) =>
                  Get(locals'.rows[n], field) =
                    IF id \in ObjectPrototype THEN <<"function", id>>
                    ELSE IF field = "generation" THEN <<"number", 0, 1>>
                    ELSE Undefined]_vars

\* the row of a species of an unknown generation and an unknown color, with a
\* shape named as an inherited member
C18_Witness ==
  /\ RowsBuilt
  /\ \E n \in DOMAIN locals.rows :
       LET specie == SpecieOf(locals.rows[n])
       IN  /\ Identifier(specie, "generation") = "unknown"
           /\ Identifier(specie, "color") = "unknown"
           /\ Identifier(specie, "shape") = "constructor"
           /\ Identifier(specie, "eggGroup1") = "unknown"
           /\ Get(locals.rows[n], "generation") = <<"number", 0, 1>>
           /\ Get(locals.rows[n], "color") = Undefined
           /\ Get(locals.rows[n], "eggGroup1") = Undefined
           /\ Get(locals.rows[n], "shape") = <<"function", "constructor">>

\* C19: the header line lists the hyphenated lowercase name of every field of
\* the declared Row schema, in the order of the schema, and nothing else
C19_HeaderMatchesSchema ==
  RowsBuilt =>
    locals.csvContent[1] = [n \in DOMAIN RowSchema |-> toKebab(RowSchema[n])]

\* C20: when there is no row, the run ends in a fatal error where the header
\* is derived, with no output directory made and no output file written
C20_EmptyRowsFatal ==
  [][pc = "growth" /\ pc' # "growth" /\ AllVariants(locals) = <<>> =>
       /\ pc' = "aborted"
       /\ OutDir \notin dirs'
       /\ dirs' = dirs
       /\ disk' = disk]_vars

\* a run over an empty row set has ended, and nothing was put out
C20_Witness ==
  /\ pc = "aborted"
  /\ tasks = <<>>
  /\ OutDir \notin dirs
  /\ ~Has(disk[OutDir], OutFile)

\* the key of an item of a stand-alone batchMap in the map it returns
KeyOf(item) == IF item = <<"number", 1, 1>> THEN "1" ELSE item[2]

\* the positions of the items with key k for which the mapper's table gives a
\* result
DefinedAt(f, k) ==
  {n \in DOMAIN f.items : KeyOf(f.items[n]) = k /\ f.mapper[n] # "undefined"}

\* C21: batchMap calls the mapper once per item, with the index of the item in
\* the whole list, and returns a map whose keys are the String(item) of the
\* items with a result other than undefined, each with that result (of the
\* last such item, when several items have the key); 0 and "" are kept
C21_BatchMapByGlobalIndex ==
  \A c \in DOMAIN calls :
    LET f == calls[c]
    IN  (f.kind = "batchMap" /\ f.op = "mapped") =>
          /\ \A t \in DOMAIN tasks : t[1] = c => tasks[t].arg = t[2]
          /\ f.status = "done" =>
               /\ Total(remoteCalls) = Len(f.items)
               /\ \A k \in {"1", "k"} :
                    IF DefinedAt(f, k) = {}
                      THEN ~Has(f.results, k)
                      ELSE LET last == CHOOSE n \in DefinedAt(f, k) :
                                         \A m \in DefinedAt(f, k) : m <= n
                           IN  /\ Has(f.results, k)
                               /\ Get(f.results, k) =
                                    IF f.mapper[last] = "empty"
                                      THEN <<"string", "">>
                                      ELSE <<"number", last - 1, 1>>
               /\ \A n \in DOMAIN f.results : f.results[n][1] \in {"1", "k"}
               /\ \A n, m \in DOMAIN f.results :
                    f.results[n][1] = f.results[m][1] => n = m

\* a batchMap over three items in windows of two has returned: the result 0 of
\* the first item is kept, the second item is dropped, and the third item,
\* first of its window, has the result of index 2
C21_Witness ==
  \E c \in DOMAIN calls :
    /\ calls[c].status = "done"
    /\ calls[c].op = "mapped"
    /\ calls[c].batchSize = 2
    /\ calls[c].items = <<Str("k"), Str("1"), Num(1)>>
    /\ calls[c].mapper = <<"index", "undefined", "index">>
    /\ calls[c].results = << <<"k", <<"number", 0, 1>> >>,
                             <<"1", <<"number", 2, 1>> >> >>

\* the wrapped fetches that have missed both tiers and have not settled: their
\* remote fetch or their cache write is under way
PastMiss == {"fetching", "mkdir", "open", "write"}

\* the wrapped fetches of key k issued so far in this process
IssuedFetches(k) ==
  Cardinality({cn \in UNION {{<<c, n>> : n \in 1..IssuedUpTo(calls[c])} :
                               c \in DOMAIN calls} :
                 CacheKey(calls[cn[1]].op, calls[cn[1]].items[cn[2]]) = k})

\* C22 as stated: of the wrapped fetches of one key that overlap in time, at
\* most one gets to fetch from the upstream and to write the record
C22_WrappedFetchAtomic ==
  \A t, u \in DOMAIN tasks :
    (TaskKey(t) = TaskKey(u) /\ tasks[t].pc \in PastMiss
                             /\ tasks[u].pc \in PastMiss) => t = u

\* C22, amended: a wrapped fetch causes at most one remote fetch and one cache
\* write, and one that starts after a wrapped fetch of its key has stored the
\* fetched value is answered from memory and causes neither; wrapped fetches
\* of one key that overlap before that may each fetch and each write
C22_AtomicUpToFirstWait ==
  /\ [](\A k \in CacheKeys :
          /\ Count(remoteCalls, <<"ability", k>>) <= IssuedFetches(k)
          /\ Cardinality({t \in DOMAIN tasks :
                            /\ TaskKey(t) = k
                            /\ tasks[t].pc \in {"mkdir", "open", "write"}})
               <= Count(remoteCalls, <<"ability", k>>))
  /\ [][\A t \in DOMAIN tasks' \ DOMAIN tasks :
          (\E u \in DOMAIN tasks :
             /\ TaskKey(u) = CacheKey(calls'[t[1]].op, Item(calls'[t[1]], t[2]))
             /\ tasks[u].source = "miss"
             /\ tasks[u].pc \in {"mkdir", "open", "write", "resolved"})
          => /\ tasks'[t].pc = "resolved"
             /\ tasks'[t].source = "memory"
             /\ tasks'[t].val = tasks[CHOOSE u \in DOMAIN tasks :
                  /\ TaskKey(u) = CacheKey(calls'[t[1]].op,
                                           Item(calls'[t[1]], t[2]))
                  /\ tasks[u].source = "miss"
                  /\ tasks[u].pc \in {"mkdir", "open", "write", "resolved"}].val
             /\ Count(remoteCalls', <<calls'[t[1]].op,
                                       Item(calls'[t[1]], t[2])>>)
                  = Count(remoteCalls, <<calls'[t[1]].op,
                                         Item(calls'[t[1]], t[2])>>)]_vars

\* two wrapped fetches of one key have both missed and both asked the upstream
C22_Witness ==
  \E t, u \in DOMAIN tasks :
    /\ t # u
    /\ TaskKey(t) = TaskKey(u)
    /\ tasks[t].pc = "fetching"
    /\ tasks[u].pc = "fetching"
    /\ Count(remoteCalls, TaskRequest(t)) = 2

\* C23: the counters read when a window of a batch() call completes count the
\* lookups of that window: their sum is the number of keys of the window
C23_CountersCountTheWindow ==
  \A c \in DOMAIN calls :
    (calls[c].statsCache # "none" /\ JoinReady(c)) =>
      stats[calls[c].statsCache].fromMemory
        + stats[calls[c].statsCache].fromDisk
        + stats[calls[c].statsCache].fromApi
      = Cardinality(Window(calls[c]))

\* C24: during the variant stage and the form stage no more remote fetches
\* than one window holds are in flight at any moment
C24_InFlightWithinWindow ==
  pc \in {"variants", "forms"} =>
    Cardinality({t \in DOMAIN tasks : tasks[t].pc = "fetching"}) <= BatchSize

(***************************************************************************)
(* C25: a batch() or batchMap() call with a non-zero delay over n > 0 keys *)
(* waits for exactly one timer between two consecutive windows and for     *)
(* none after the last one: a call that has returned has waited            *)
(* ceil(n / batchSize) - 1 times, a call in its window at i has waited     *)
(* once per earlier window, and the requests of a window other than the    *)
(* first are issued by the step that ends the wait.                        *)
(***************************************************************************)
WindowCount(f) == (Len(f.items) + f.batchSize - 1) \div f.batchSize

Delayed == {c \in DOMAIN calls : calls[c].delayMs # 0 /\ Len(calls[c].items) > 0}

C25_OneDelayBetweenWindows ==
  /\ [](\A c \in Delayed :
          LET f == calls[c]
          IN  /\ f.status = "done" => f.delays = WindowCount(f) - 1
              /\ f.status \in {"window", "failed"} =>
                   f.delays = f.i \div f.batchSize
              /\ f.status = "delay" =>
                   /\ f.delays = f.i \div f.batchSize + 1
                   /\ f.delays <= WindowCount(f) - 1
                   /\ \A t \in DOMAIN tasks : t[1] # c)
  /\ [][\A c \in Delayed :
          /\ calls'[c].i # calls[c].i /\ calls'[c].status = "window" =>
               /\ calls[c].status = "delay"
               /\ calls'[c].delays = calls[c].delays
               /\ calls'[c].i = calls[c].i + calls[c].batchSize
          /\ calls[c].status = "delay" =>
               Total(remoteCalls') = Total(remoteCalls)
                 + (IF calls'[c].status = "window"
                      THEN Cardinality(Window(calls'[c])) ELSE 0)
          /\ calls[c].status # "delay" /\ calls[c].kind \in {"batch", "batchMap"} =>
               Total(remoteCalls') = Total(remoteCalls)]_vars

\* a call over three keys in windows of two has returned after one wait
C25_Witness ==
  \E c \in Delayed :
    /\ calls[c].status = "done"
    /\ Len(calls[c].items) = 3
    /\ calls[c].batchSize = 2
    /\ calls[c].delays = 1
    /\ Total(remoteCalls) = 3

(***************************************************************************)
(* C26: get(k) on a key that is in the memory table returns the memory     *)
(* value with source memory and reads no file; otherwise, when the file    *)
(* read finds a complete record, it returns the record's value with source *)
(* disk and puts it into the memory table, where it stays as long as the   *)
(* cache instance lives, so later get(k) are served from memory; otherwise *)
(* it reports a miss and changes neither the memory table nor the files.   *)
(***************************************************************************)
C26_GetTwoTiers ==
  [][/\ \A t \in DOMAIN tasks' \ DOMAIN tasks :
          LET f == calls'[t[1]]
              k == CacheKey(f.op, Item(f, t[2]))
          IN  /\ tasks'[t].file = "unread"
              /\ IF k \in DOMAIN mem[f.cache]
                   THEN /\ tasks'[t].pc = "resolved"
                        /\ tasks'[t].source = "memory"
                        /\ tasks'[t].val = mem[f.cache][k]
                   ELSE /\ tasks'[t].pc = "reading"
                        /\ tasks'[t].source = "none"
              /\ mem' = mem
              /\ disk' = disk
     /\ \A t \in DOMAIN tasks \cap DOMAIN tasks' :
          (tasks[t].pc = "reading" /\ tasks'[t] # tasks[t]) =>
            LET c == calls[t[1]].cache
                d == cacheDir(c)
            IN  /\ disk' = disk
                /\ TaskKey(t) \notin DOMAIN mem[c] => tasks[t].source = "none"
                /\ IF WellFormedOnDisk(t)
                     THEN /\ tasks'[t].pc = "resolved"
                          /\ tasks'[t].source = "disk"
                          /\ tasks'[t].val = JSONparse(disk[d][getPath(TaskKey(t))])
                          /\ mem' = [mem EXCEPT ![c] = Put(@, TaskKey(t), tasks'[t].val)]
                          /\ TaskKey(t) \in DOMAIN mem'[c]
                     ELSE /\ tasks'[t].source = "miss"
                          /\ tasks'[t].val = None
                          /\ mem' = mem
     /\ run' = run =>
          \A c \in Caches : \A k \in DOMAIN mem[c] : k \in DOMAIN mem'[c]]_vars

\* one get() of a key has been served from disk and a later one, of the same
\* cache instance, from memory, and the upstream was never asked
C26_Witness ==
  \E t1, t2 \in DOMAIN tasks :
    /\ TaskKey(t1) = TaskKey(t2)
    /\ tasks[t1].pc = "resolved" /\ tasks[t1].source = "disk"
    /\ tasks[t2].pc = "resolved" /\ tasks[t2].source = "memory"
    /\ TaskKey(t1) \in DOMAIN mem["ability"]
    /\ Count(remoteCalls, TaskRequest(t1)) = 0

(***************************************************************************)
(* C27: within one run, a key that is in the memory table of a cache keeps *)
(* its value there, a complete record file keeps its text, and a value     *)
(* whose set() has resolved stays the value of its key; a step that        *)
(* changes the memory table or the directory of one cache changes neither  *)
(* the memory table nor the directory of any other cache.                  *)
(***************************************************************************)
\* the step is neither the end of the process nor the start of the next one
SameRun == run' = run /\ pc' \notin {"done", "aborted"}

Written(c) ==
  {file \in DOMAIN disk[cacheDir(c)] : Parses(disk[cacheDir(c)][file])}

Touched(c) == mem'[c] # mem[c] \/ disk'[cacheDir(c)] # disk[cacheDir(c)]

C27_EntriesImmutableAndSeparate ==
  [][SameRun =>
       \A c \in Caches :
         /\ \A k \in DOMAIN mem[c] :
              k \in DOMAIN mem'[c] /\ mem'[c][k] = mem[c][k]
         /\ \A file \in Written(c) :
              /\ file \in DOMAIN disk'[cacheDir(c)]
              /\ disk'[cacheDir(c)][file] = disk[cacheDir(c)][file]
         /\ \A k \in DOMAIN committed[c] :
              k \in DOMAIN committed'[c] /\ committed'[c][k] = committed[c][k]
         /\ Touched(c) => \A c2 \in Caches \ {c} : ~Touched(c2)]_vars

\* in its first run the pipeline has written entries of four caches and is
\* writing one of the fifth
C27_Witness ==
  /\ run = 1
  /\ \A c \in Caches \ {"growth-rate"} :
       DOMAIN committed[c] # {} /\ DOMAIN mem[c] = DOMAIN committed[c]
  /\ \E t \in DOMAIN tasks :
       /\ calls[t[1]].cache = "growth-rate"
       /\ tasks[t].pc = "write"
       /\ TaskKey(t) \in DOMAIN mem["growth-rate"]

(***************************************************************************)
(* C28: the key of a wrapped fetch is the argument itself when it is a     *)
(* string, and otherwise a serialization under which two value-equal       *)
(* arguments (the same fields with equal values, in whatever order the     *)
(* fields were added) have the same key.                                   *)
(***************************************************************************)
ValueEqual(op, a, b) == IF StringKeyed(op) THEN a = b ELSE DeepEqual(a, b)

C28_ValueEqualArgumentsShareKey ==
  \A c \in DOMAIN calls :
    LET f == calls[c]
    \* the arguments the wrapped function has been called with so far
    IN  \A i, j \in 1..Min(f.i + 1, Len(f.items)) :
          /\ StringKeyed(f.op) => CacheKey(f.op, f.items[i]) = f.items[i]
          /\ ValueEqual(f.op, f.items[i], f.items[j]) =>
               CacheKey(f.op, f.items[i]) = CacheKey(f.op, f.items[j])

(***************************************************************************)
(* C29: the step in which a run aborts on a failed fetch changes no file,  *)
(* and in the run after an aborted one every key whose set() had resolved  *)
(* before the failure still has its record on disk, is resolved from disk  *)
(* or from memory, and causes no remote request.                           *)
(***************************************************************************)
AfterAbort == run > 1 /\ lastRun.end = "aborted"

C29_AbortKeepsResolvedEntries ==
  /\ [](AfterAbort =>
          \A c \in Caches :
            \A k \in DOMAIN lastRun.sets[c] :
              /\ FileExists(cacheDir(c), getPath(k))
              /\ disk[cacheDir(c)][getPath(k)] = JSONstringify(lastRun.sets[c][k])
              /\ \A t \in DOMAIN tasks :
                   (calls[t[1]].cache = c /\ TaskKey(t) = k) =>
                     /\ tasks[t].pc \in {"reading", "resolved"}
                     /\ tasks[t].source \in {"none", "disk", "memory"}
                     /\ tasks[t].pc = "resolved" =>
                          tasks[t].val = lastRun.sets[c][k]
                     /\ Count(remoteCalls, TaskRequest(t)) = 0)
  /\ [][(pc' = "aborted" /\ pc # "aborted") =>
          /\ disk' = disk
          /\ dirs' = dirs
          /\ committed' = committed]_vars

\* in the run after an aborted one, a key written before the failure has
\* been resolved from disk while another key is fetched from the upstream
C29_Witness ==
  /\ AfterAbort
  /\ \E t, u \in DOMAIN tasks :
       /\ TaskKey(t) \in DOMAIN lastRun.sets[calls[t[1]].cache]
       /\ tasks[t].pc = "resolved"
       /\ tasks[t].source = "disk"
       /\ tasks[u].source = "miss"

(***************************************************************************)
(* C30: when the remote fetch of a wrapped fetch fails, the wrapped fetch  *)
(* is rejected and its call fails, and the step changes neither the memory *)
(* tables nor the files; a wrapped fetch of the same key that then finds   *)
(* no entry in memory and no complete record on disk asks the upstream     *)
(* again.                                                                  *)
(***************************************************************************)
FailedKeys(c) ==
  {TaskKey(t) : t \in {u \in DOMAIN tasks :
                         calls[u[1]].cache = c /\ tasks[u].pc = "rejected"}}

C30_FailedFetchStoresNothing ==
  /\ [](\A t \in DOMAIN tasks :
          tasks[t].pc = "rejected" =>
            /\ tasks[t].source = "miss"
            /\ tasks[t].val = None
            /\ calls[t[1]].status = "failed")
  /\ [][\A t \in DOMAIN tasks \cap DOMAIN tasks' :
          LET c == calls[t[1]].cache
          IN  /\ (tasks[t].pc = "fetching" /\ tasks'[t].pc = "rejected") =>
                   /\ mem' = mem
                   /\ disk' = disk
                   /\ dirs' = dirs
                   /\ committed' = committed
                   /\ remoteCalls' = remoteCalls
                   /\ calls'[t[1]].status = "failed"
              /\ (/\ tasks[t].pc = "reading" /\ tasks'[t] # tasks[t]
                  /\ TaskKey(t) \in FailedKeys(c)
                  /\ ~WellFormedOnDisk(t)) =>
                   /\ tasks'[t].pc = "fetching"
                   /\ tasks'[t].source = "miss"
                   /\ Count(remoteCalls', TaskRequest(t))
                        = Count(remoteCalls, TaskRequest(t)) + 1]_vars

\* the fetch of a key has failed, neither tier holds the key, and another
\* wrapped fetch of the key has missed and asked the upstream a second time
C30_Witness ==
  \E t, u \in DOMAIN tasks :
    /\ TaskKey(t) = TaskKey(u)
    /\ tasks[t].pc = "rejected"
    /\ tasks[u].pc = "fetching"
    /\ tasks[u].source = "miss"
    /\ TaskKey(t) \notin DOMAIN mem["ability"]
    /\ ~FileExists(cacheDir("ability"), getPath(TaskKey(t)))
    /\ Count(remoteCalls, TaskRequest(t)) = 2

(***************************************************************************)
(* C31: for every list of n keys and every window size >= 1, if no fetch   *)
(* fails then the call eventually returns, having requested every list     *)
(* position exactly once over ceil(n / batchSize) windows; with window     *)
(* size 0 and a non-empty list the loop stays at index 0, issues no        *)
(* request and never returns.                                              *)
(***************************************************************************)
Positions(f, k) == {n \in DOMAIN f.items : f.items[n] = k}

Returned(c) ==
  LET f == calls[c]
  IN  /\ f.status = "done"
      /\ \A k \in BatchKeys :
           Count(remoteCalls, <<f.op, k>>) = Cardinality(Positions(f, k))
      /\ Total(remoteCalls) = Len(f.items)
      /\ f.batchSize >= 1 => f.i = WindowCount(f) * f.batchSize

Stuck(f) == f.batchSize = 0 /\ Len(f.items) > 0

C31_BatchTerminates ==
  /\ [](\A c \in DOMAIN calls :
          Stuck(calls[c]) =>
            /\ calls[c].status \in {"window", "delay"}
            /\ calls[c].i = 0
            /\ calls[c].results = <<>>
            /\ Total(remoteCalls) = 0)
  /\ [](\A t \in DOMAIN tasks : tasks[t].pc # "rejected")
       => <>(\A c \in DOMAIN calls : ~Stuck(calls[c]) => Returned(c))

\* a call over three keys in windows of two has returned after two windows
\* and three requests
C31_Witness ==
  \E c \in DOMAIN calls :
    /\ Returned(c)
    /\ Len(calls[c].items) = 3
    /\ calls[c].batchSize = 2
    /\ calls[c].i = 4

(***************************************************************************)
(* C32: on a cold cache, a run of the cached script and a run of the first *)
(* script hand the same values to main(): every fetch that has a value has *)
(* the upstream's record of its item, and once the five tables are built   *)
(* they are the tables of the upstream's catalogue and every get-by-name   *)
(* request of the catalogue, and no other, has been issued exactly once,   *)
(* whichever of the two scripts is running.                                *)
(***************************************************************************)
ColdRun == \A c \in Caches : lastRun.sets[c] = <<>>

TablesBuilt == pc \in {"outmkdir", "outopen", "outwrite"}

ExpectedSpecies ==
  [n \in DOMAIN SpeciesList |-> Upstream("species", Get(SpeciesList[n], "name"))]

FetchedAll(op, refs, path) ==
  [n \in DOMAIN refs |->
     Upstream(op, IF path = "pokemon" THEN Get(Get(refs[n], "pokemon"), "name")
                  ELSE Get(refs[n], "name"))]

ExpectedVariants ==
  {<<Get(ExpectedSpecies[n], "name"),
     FetchedAll("pokemon", Get(ExpectedSpecies[n], "varieties"), "pokemon")>> :
     n \in DOMAIN ExpectedSpecies}

ExpectedVariantList == UNION {Range(p[2]) : p \in ExpectedVariants}

ExpectedForms ==
  {<<Get(v, "name"), FetchedAll("form", Get(v, "forms"), "name")>> :
     v \in ExpectedVariantList}

ExpectedAbilityNames ==
  UNION {{Get(Get(a, "ability"), "name") : a \in Range(Get(v, "abilities"))} :
           v \in ExpectedVariantList}

ExpectedAbilities ==
  {<<a, Mapper("ability", a, Upstream("ability", a))>> : a \in ExpectedAbilityNames}

ExpectedGrowthRates ==
  {<<Get(g, "name"),
     Mapper("growth-rate", Get(g, "name"), Upstream("growth-rate", Get(g, "name")))>> :
     g \in Range(GrowthRatesList)}

ExpectedGets ==
  {<<"species", Get(s, "name")>> : s \in Range(SpeciesList)}
    \cup {<<"pokemon", Get(v, "name")>> : v \in ExpectedVariantList}
    \cup UNION {{<<"form", Get(r, "name")>> : r \in Range(Get(v, "forms"))} :
                  v \in ExpectedVariantList}
    \cup {<<"ability", a>> : a \in ExpectedAbilityNames}
    \cup {<<"growth-rate", Get(g, "name")>> : g \in Range(GrowthRatesList)}

IsTable(t, pairs) == Range(t) = pairs /\ Len(t) = Cardinality(pairs)

C32_CacheDoesNotChangeTables ==
  ColdRun =>
    /\ \A t \in DOMAIN tasks :
         tasks[t].pc \in {"mkdir", "open", "write", "resolved"} =>
           tasks[t].val = Upstream(TaskRequest(t)[1], TaskRequest(t)[2])
    /\ DOMAIN remoteCalls \subseteq ExpectedGets \cup ListRequests
    /\ \A r \in DOMAIN remoteCalls : remoteCalls[r] = 1
    /\ TablesBuilt =>
         /\ locals.species = ExpectedSpecies
         /\ IsTable(locals.speciesToVariantsMap, ExpectedVariants)
         /\ IsTable(locals.variantToFormsMap, ExpectedForms)
         /\ IsTable(locals.abilitiesMap, ExpectedAbilities)
         /\ IsTable(locals.growthRatesMap, ExpectedGrowthRates)
         /\ DOMAIN remoteCalls = ExpectedGets \cup ListRequests

\* the first script has run to its end and the cached script, on the cold
\* cache, has built its five tables and written every record
C32_Witness ==
  /\ run = 1
  /\ lastRun.end = "done"
  /\ lastRun.out.exists
  /\ ColdRun
  /\ TablesBuilt
  /\ \A c \in Caches : DOMAIN committed[c] # {}

====
